---- MODULE Spec2Model ----
(***************************************************************************)
(* Conversation state machine and session store of the OTC trading bot     *)
(* (backend/handlers/bland.go).                                            *)
(*                                                                         *)
(* Text is a sequence of one-character strings, so that substring search,  *)
(* case folding, trimming, tokenising and number parsing are computed the  *)
(* way the Go code computes them.  A float64 is the integer number of      *)
(* 1/10000 units (the vocabulary has no value with more than four          *)
(* decimals, no exponent form and none of "inf", "nan").  A reply is the   *)
(* sequence of the chunks that fmt.Sprintf concatenates.                   *)
(***************************************************************************)
EXTENDS Integers, Sequences, FiniteSets, TLC

(* ------------------------------------------------------------------ *)
(* strings                                                              *)
(* ------------------------------------------------------------------ *)

UpperLetters ==
    <<"A","B","C","D","E","F","G","H","I","J","K","L","M",
      "N","O","P","Q","R","S","T","U","V","W","X","Y","Z">>

LowerLetters ==
    <<"a","b","c","d","e","f","g","h","i","j","k","l","m",
      "n","o","p","q","r","s","t","u","v","w","x","y","z">>

Digits == <<"0","1","2","3","4","5","6","7","8","9">>

WhiteSpace == {" ", "\t", "\n", "\r"}

IndexOf(seq, c) == CHOOSE i \in 1..Len(seq) : seq[i] = c

IsIn(seq, c) == \E i \in 1..Len(seq) : seq[i] = c

LowerMap == [c \in {UpperLetters[i] : i \in 1..Len(UpperLetters)} |-> LowerLetters[IndexOf(UpperLetters, c)]]

UpperMap == [c \in {LowerLetters[i] : i \in 1..Len(LowerLetters)} |-> UpperLetters[IndexOf(LowerLetters, c)]]

ToLowerChar(c) == IF c \in DOMAIN LowerMap THEN LowerMap[c] ELSE c

ToUpperChar(c) == IF c \in DOMAIN UpperMap THEN UpperMap[c] ELSE c

\* strings.ToLower
ToLower(s) == [i \in 1..Len(s) |-> ToLowerChar(s[i])]

\* strings.ToUpper
ToUpper(s) == [i \in 1..Len(s) |-> ToUpperChar(s[i])]

\* strings.Contains
Contains(s, sub) ==
    \E i \in 0..(Len(s) - Len(sub)) : SubSeq(s, i + 1, i + Len(sub)) = sub

RECURSIVE TrimLeft(_, _)
TrimLeft(s, cutset) ==
    IF s # <<>> /\ Head(s) \in cutset THEN TrimLeft(Tail(s), cutset) ELSE s

RECURSIVE TrimRight(_, _)
TrimRight(s, cutset) ==
    IF s # <<>> /\ s[Len(s)] \in cutset
    THEN TrimRight(SubSeq(s, 1, Len(s) - 1), cutset)
    ELSE s

\* strings.Trim(s, cutset): strips leading and trailing characters of cutset
Trim(s, cutset) == TrimRight(TrimLeft(s, cutset), cutset)

\* strings.TrimSpace
TrimSpace(s) == Trim(s, WhiteSpace)

\* strings.ReplaceAll(s, old, "") for a one-character old
RemoveAll(s, old) == SelectSeq(s, LAMBDA c : c # old)

RECURSIVE FieldsFrom(_, _, _)
FieldsFrom(s, i, word) ==
    IF i > Len(s)
    THEN IF word = <<>> THEN <<>> ELSE <<word>>
    ELSE IF s[i] \in WhiteSpace
         THEN (IF word = <<>> THEN <<>> ELSE <<word>>) \o FieldsFrom(s, i + 1, <<>>)
         ELSE FieldsFrom(s, i + 1, Append(word, s[i]))

\* strings.Fields: the maximal runs of non-space characters, in order
Fields(s) == FieldsFrom(s, 1, <<>>)

(* ------------------------------------------------------------------ *)
(* numbers                                                              *)
(* ------------------------------------------------------------------ *)

\* the reply format "%.4f" keeps four decimals
FracDigits == 4

RECURSIVE Pow10(_)
Pow10(n) == IF n = 0 THEN 1 ELSE 10 * Pow10(n - 1)

\* a float64 value v is held as the integer v * Scale
Scale == Pow10(FracDigits)

RECURSIVE DigitsValue(_)
DigitsValue(s) ==
    IF s = <<>> THEN 0
    ELSE 10 * DigitsValue(SubSeq(s, 1, Len(s) - 1)) + (IndexOf(Digits, s[Len(s)]) - 1)

\* the unsigned decimal mantissa  digits [ "." digits ]  |  "." digits
UnsignedOk(s) ==
    LET dots == {i \in 1..Len(s) : s[i] = "."}
    IN  /\ s # <<>>
        /\ Cardinality(dots) <= 1
        /\ \A i \in 1..Len(s) : s[i] = "." \/ IsIn(Digits, s[i])
        /\ \E i \in 1..Len(s) : IsIn(Digits, s[i])
        /\ \A d \in dots : Len(s) - d <= FracDigits

UnsignedValue(s) ==
    LET dots == {i \in 1..Len(s) : s[i] = "."}
        dot  == IF dots = {} THEN Len(s) + 1 ELSE CHOOSE d \in dots : TRUE
        int  == SubSeq(s, 1, dot - 1)
        frac == SubSeq(s, dot + 1, Len(s))
    IN  DigitsValue(int) * Scale + DigitsValue(frac) * Pow10(FracDigits - Len(frac))

\* strconv.ParseFloat(s, 64) on decimal literals: [ok |-> err == nil, num]
ParseFloat(s) ==
    LET signed == s # <<>> /\ Head(s) \in {"+", "-"}
        body   == IF signed THEN Tail(s) ELSE s
    IN  IF UnsignedOk(body)
        THEN [ok |-> TRUE,
              num |-> IF signed /\ Head(s) = "-" THEN 0 - UnsignedValue(body)
                      ELSE UnsignedValue(body)]
        ELSE [ok |-> FALSE, num |-> 0]

RECURSIVE NatDigits(_)
NatDigits(n) ==
    IF n < 10 THEN <<Digits[n + 1]>> ELSE Append(NatDigits(n \div 10), Digits[(n % 10) + 1])

RECURSIVE PadLeft(_, _)
PadLeft(s, n) == IF Len(s) >= n THEN s ELSE PadLeft(<<"0">> \o s, n)

\* fmt "%.4f"
Fmt4(v) ==
    LET a == IF v < 0 THEN 0 - v ELSE v
    IN  (IF v < 0 THEN <<"-">> ELSE <<>>)
        \o NatDigits(a \div Scale) \o <<".">> \o PadLeft(NatDigits(a % Scale), FracDigits)

(* ------------------------------------------------------------------ *)
(* literals of the code, and the utterances of the model                *)
(* ------------------------------------------------------------------ *)

K_OKX == <<"o","k","x">>

K_BYBIT == <<"b","y","b","i","t">>

K_DERIBIT == <<"d","e","r","i","b","i","t">>

K_BINANCE == <<"b","i","n","a","n","c","e">>

N_OKX == <<"O","K","X">>

N_BYBIT == <<"B","y","b","i","t">>

N_DERIBIT == <<"D","e","r","i","b","i","t">>

N_BINANCE == <<"B","i","n","a","n","c","e">>

W_YES == <<"y","e","s">>

W_CORRECT == <<"c","o","r","r","e","c","t">>

W_NO == <<"n","o">>

W_WRONG == <<"w","r","o","n","g">>

\* what callers say (the payload's utterance, before it is trimmed and lower-cased)
\* "I want okx"
P_WantOkx == <<"I"," ","w","a","n","t"," ","o","k","x">>

\* "OKX or Bybit"
P_OkxOrBybit == <<"O","K","X"," ","o","r"," ","B","y","b","i","t">>

\* " Doge "
P_Doge == <<" ","D","o","g","e"," ">>

\* "1.5 at 65000"
P_OneAndHalfAt65000 == <<"1",".","5"," ","a","t"," ","6","5","0","0","0">>

\* "yes please"
P_YesPlease == <<"y","e","s"," ","p","l","e","a","s","e">>

\* "no"
P_No == <<"n","o">>

\* "not correct"
P_NotCorrect == <<"n","o","t"," ","c","o","r","r","e","c","t">>

\* "-5"
P_MinusFive == <<"-","5">>

Payloads ==
    { P_WantOkx,
      P_Doge,
      P_OneAndHalfAt65000,
      P_YesPlease,
      P_No,
      P_NotCorrect,
      P_MinusFive }

\* "quantity 2"
P_QuantityTwo == <<"q","u","a","n","t","i","t","y"," ","2">>

\* "at 65000 dollars"
P_At65000Dollars == <<"a","t"," ","6","5","0","0","0"," ","d","o","l","l","a","r","s">>

\* "that is wrong"
P_ThatIsWrong == <<"t","h","a","t"," ","i","s"," ","w","r","o","n","g">>

\* what callers say in the runs that follow one conversation
TalkPayloads ==
    Payloads \cup { P_OkxOrBybit, P_QuantityTwo, P_At65000Dollars, P_ThatIsWrong }

(* ------------------------------------------------------------------ *)
(* extractNumber and the price lookup                                   *)
(* ------------------------------------------------------------------ *)

RECURSIVE FirstNumber(_)
FirstNumber(words) ==
    IF words = <<>> THEN [num |-> 0, found |-> FALSE]
    ELSE LET cleanWord == Trim(Head(words), {".", ",", "!", "?", "$"})
             parsed    == ParseFloat(cleanWord)
         IN  IF parsed.ok THEN [num |-> parsed.num, found |-> TRUE]
             ELSE FirstNumber(Tail(words))

\* extractNumber that returns the last word that parses
extractNumber_LastNumber(text, keywords) ==
    LET words == Fields(RemoveAll(text, ","))
    IN  FirstNumber([i \in 1..Len(words) |-> words[Len(words) + 1 - i]])

\* extractNumber that leaves the commas in the text
extractNumber_KeepsCommas(text, keywords) == FirstNumber(Fields(text))

\* extractNumber(text, keywords): the first word that parses, keywords unused
extractNumber(text, keywords) == FirstNumber(Fields(RemoveAll(text, ",")))

\* the mock price 65123.45 returned when the upstream has no quote
MockPrice == 65123 * Scale + 4500

\* the quote the upstream returns in the model: 30000.25
QuotedPrice == 30000 * Scale + 2500

\* what the HTTP call of fetchCurrentPrice meets: a transport error, a status
\* other than 200, an undecodable body, a body with or without the coin's usd
\* quote; NoCall when the request makes no lookup
NoCall == [kind |-> "nocall", usd |-> 0]

Gateway ==
    { [kind |-> "network", usd |-> 0],
      [kind |-> "status",  usd |-> 0],
      [kind |-> "decode",  usd |-> 0],
      [kind |-> "missing", usd |-> 0],
      [kind |-> "found",   usd |-> QuotedPrice] }

GatewayFailed(gw) == gw.kind \in {"network", "status", "decode"}

\* fetchCurrentPrice that reports an error when the answer holds no quote
fetchCurrentPrice_MissingIsError(exchange, symbol, gw) ==
    IF gw.kind = "network" THEN [price |-> 0, err |-> "failed to fetch price data"]
    ELSE IF gw.kind = "status" THEN [price |-> 0, err |-> "API returned status"]
    ELSE IF gw.kind = "decode" THEN [price |-> 0, err |-> "failed to decode price response"]
    ELSE IF gw.kind = "found" THEN [price |-> gw.usd, err |-> "nil"]
    ELSE [price |-> 0, err |-> "price not found"]

\* fetchCurrentPrice(exchange, symbol) against the upstream answer gw
fetchCurrentPrice(exchange, symbol, gw) ==
    IF gw.kind = "network" THEN [price |-> 0, err |-> "failed to fetch price data"]
    ELSE IF gw.kind = "status" THEN [price |-> 0, err |-> "API returned status"]
    ELSE IF gw.kind = "decode" THEN [price |-> 0, err |-> "failed to decode price response"]
    ELSE IF gw.kind = "found" THEN [price |-> gw.usd, err |-> "nil"]
    ELSE [price |-> MockPrice, err |-> "nil"]

(* ------------------------------------------------------------------ *)
(* sessions                                                             *)
(* ------------------------------------------------------------------ *)

\* TradingSession
NewSession(callID) ==
    [CallID |-> callID, State |-> "greeting", Exchange |-> <<>>, Symbol |-> <<>>,
     Price |-> 0, Quantity |-> 0, OrderPrice |-> 0]

\* the keys of the exchanges map of handleExchangeSelection
ExchangeKeys == { K_OKX, K_BYBIT, K_DERIBIT, K_BINANCE }

\* exchanges[key]
ExchangeName(key) ==
    IF key = K_OKX THEN N_OKX
    ELSE IF key = K_BYBIT THEN N_BYBIT
    ELSE IF key = K_DERIBIT THEN N_DERIBIT
    ELSE N_BINANCE

\* the order in which the map literal lists its keys
LiteralOrder == <<K_OKX, K_BYBIT, K_DERIBIT, K_BINANCE>>

\* Orders in which a range over the exchanges map may visit its keys.  Go leaves
\* the order open; only the first key that matches decides the outcome, and every
\* key comes first in one of these orders, so they produce every outcome.
IterationOrders ==
    { [i \in 1..4 |-> LiteralOrder[((i + k - 1) % 4) + 1]] : k \in 0..3 }

\* the first key of the iteration order that the utterance contains (0: none)
FirstMatch(utterance, order) ==
    LET hits == { i \in 1..4 : Contains(utterance, order[i]) }
    IN  IF hits = {} THEN 0 ELSE CHOOSE i \in hits : \A j \in hits : i <= j

(* ------------------------------------------------------------------ *)
(* replies                                                              *)
(* ------------------------------------------------------------------ *)

GreetingText ==
    <<"Hello! Welcome to GoQuant's OTC trading service. To get started, please choose an exchange from the following options: OKX, Bybit, Deribit, or Binance.">>

LostTrackText ==
    <<"I'm sorry, I seem to have lost track. Let's start over. Which exchange would you like to trade on: OKX, Bybit, Deribit, or Binance?">>

ExchangeRepromptText ==
    <<"I didn't catch that. Please choose from: OKX, Bybit, Deribit, or Binance.">>

ExchangeChosenText(name) ==
    <<"Great! You've selected ">> \o name \o <<". Which trading symbol would you like to trade?">>

PriceApologyText(symbol) ==
    <<"Sorry, I couldn't get the price for ">> \o symbol \o <<". Please try a different symbol.">>

PriceQuoteText(symbol, exchange, price) ==
    <<"The current price for ">> \o symbol \o <<" on ">> \o exchange \o <<" is $">>
    \o Fmt4(price) \o <<". Now, what quantity and price for the order?">>

AskPriceText == <<"And at what price?">>

AskQuantityText == <<"And what quantity?">>

NeedBothText ==
    <<"I need the quantity and the price. For example, '1.5 Bitcoin at 65,000 dollars'.">>

QuantityRepromptText == <<"I didn't catch that. How much do you want to trade?">>

PriceRepromptText == <<"Sorry, what was the price?">>

CompletedText ==
    <<"Excellent! Your simulated order has been recorded. Thank you for using GoQuant!">>

RejectedText == <<"No problem, let's correct it. What quantity and at what price?">>

ConfirmRepromptText == <<"Please confirm with 'yes' or 'no'.">>

InvalidPayloadText == <<"Invalid payload">>

\* the order summary of confirmOrder from the four values it reads
SummaryText(quantity, symbol, orderPrice, exchange) ==
    <<"Got it. To confirm, you want to trade ">> \o Fmt4(quantity) \o <<" ">> \o symbol
    \o <<" at $">> \o Fmt4(orderPrice) \o <<" per unit on ">> \o exchange
    \o <<". Is that correct?">>

\* confirmOrder that quotes the price of the lookup, not the price of the order
confirmOrder_QuotesReference(session) ==
    SummaryText(session.Quantity, session.Symbol, session.Price, session.Exchange)

confirmOrder(session) ==
    SummaryText(session.Quantity, session.Symbol, session.OrderPrice, session.Exchange)

(* ------------------------------------------------------------------ *)
(* the state machine, one utterance at a time                           *)
(* ------------------------------------------------------------------ *)

\* handleExchangeSelection that takes the first exchange the range visits when some
\* exchange is named
handleExchangeSelection_FirstVisited(session, utterance, order) ==
    LET i == FirstMatch(utterance, order)
    IN  IF i # 0
        THEN [s |-> [session EXCEPT !.Exchange = ExchangeName(order[1]),
                                    !.State = "exchange_selected"],
              reply |-> ExchangeChosenText(ExchangeName(order[1]))]
        ELSE [s |-> session, reply |-> ExchangeRepromptText]

handleExchangeSelection(session, utterance, order) ==
    LET i == FirstMatch(utterance, order)
    IN  IF i # 0
        THEN [s |-> [session EXCEPT !.Exchange = ExchangeName(order[i]),
                                    !.State = "exchange_selected"],
              reply |-> ExchangeChosenText(ExchangeName(order[i]))]
        ELSE [s |-> session, reply |-> ExchangeRepromptText]

\* handleSymbolSelection that stores the utterance as it is, not upper-cased
handleSymbolSelection_KeepsCase(session, utterance, gw) ==
    LET potentialSymbol == ToUpper(utterance)
        got == fetchCurrentPrice(session.Exchange, potentialSymbol, gw)
    IN  IF got.err # "nil"
        THEN [s |-> session, reply |-> PriceApologyText(potentialSymbol)]
        ELSE [s |-> [session EXCEPT !.Symbol = utterance,
                                    !.Price = got.price,
                                    !.State = "symbol_selected"],
              reply |-> PriceQuoteText(potentialSymbol, session.Exchange, got.price)]

\* handleSymbolSelection that stores the symbol before it knows the lookup worked
handleSymbolSelection_StoresFirst(session, utterance, gw) ==
    LET potentialSymbol == ToUpper(utterance)
        got == fetchCurrentPrice(session.Exchange, potentialSymbol, gw)
        s1  == [session EXCEPT !.Symbol = potentialSymbol]
    IN  IF got.err # "nil"
        THEN [s |-> s1, reply |-> PriceApologyText(potentialSymbol)]
        ELSE [s |-> [s1 EXCEPT !.Price = got.price, !.State = "symbol_selected"],
              reply |-> PriceQuoteText(potentialSymbol, session.Exchange, got.price)]

handleSymbolSelection(session, utterance, gw) ==
    LET potentialSymbol == ToUpper(utterance)
        got == fetchCurrentPrice(session.Exchange, potentialSymbol, gw)
    IN  IF got.err # "nil"
        THEN [s |-> session, reply |-> PriceApologyText(potentialSymbol)]
        ELSE [s |-> [session EXCEPT !.Symbol = potentialSymbol,
                                    !.Price = got.price,
                                    !.State = "symbol_selected"],
              reply |-> PriceQuoteText(potentialSymbol, session.Exchange, got.price)]

\* handleOrderDetails without the test that both numbers are positive
handleOrderDetails_Unchecked(session, utterance) ==
    LET q  == extractNumber(utterance, <<"quantity", "amount", "size">>)
        p  == extractNumber(utterance, <<"price", "at", "for">>)
        s1 == IF q.found THEN [session EXCEPT !.Quantity = q.num] ELSE session
        s2 == IF p.found THEN [s1 EXCEPT !.OrderPrice = p.num] ELSE s1
    IN  IF q.found /\ p.found
        THEN LET s3 == [s2 EXCEPT !.State = "confirming"]
             IN  [s |-> s3, reply |-> confirmOrder(s3)]
        ELSE [s |-> s2, reply |-> NeedBothText]

handleOrderDetails(session, utterance) ==
    LET q  == extractNumber(utterance, <<"quantity", "amount", "size">>)
        p  == extractNumber(utterance, <<"price", "at", "for">>)
        s1 == IF q.found THEN [session EXCEPT !.Quantity = q.num] ELSE session
        s2 == IF p.found THEN [s1 EXCEPT !.OrderPrice = p.num] ELSE s1
    IN  IF s2.Quantity > 0 /\ s2.OrderPrice > 0
        THEN LET s3 == [s2 EXCEPT !.State = "confirming"]
             IN  [s |-> s3, reply |-> confirmOrder(s3)]
        ELSE IF s2.Quantity > 0
        THEN [s |-> [s2 EXCEPT !.State = "awaiting_price"], reply |-> AskPriceText]
        ELSE IF s2.OrderPrice > 0
        THEN [s |-> [s2 EXCEPT !.State = "awaiting_quantity"], reply |-> AskQuantityText]
        ELSE [s |-> s2, reply |-> NeedBothText]

\* handleQuantity that takes the order as accepted once it has the quantity
handleQuantity_Completes(session, utterance) ==
    LET q == extractNumber(utterance, <<>>)
    IN  IF ~q.found
        THEN [s |-> session, reply |-> QuantityRepromptText]
        ELSE LET s1 == [session EXCEPT !.Quantity = q.num, !.State = "completed"]
             IN  [s |-> s1, reply |-> confirmOrder(s1)]

\* handleQuantity that stores the number as the price too
handleQuantity_SetsBoth(session, utterance) ==
    LET q == extractNumber(utterance, <<>>)
    IN  IF ~q.found
        THEN [s |-> session, reply |-> QuantityRepromptText]
        ELSE LET s1 == [session EXCEPT !.Quantity = q.num, !.OrderPrice = q.num,
                                       !.State = "confirming"]
             IN  [s |-> s1, reply |-> confirmOrder(s1)]

handleQuantity(session, utterance) ==
    LET q == extractNumber(utterance, <<>>)
    IN  IF ~q.found
        THEN [s |-> session, reply |-> QuantityRepromptText]
        ELSE LET s1 == [session EXCEPT !.Quantity = q.num, !.State = "confirming"]
             IN  [s |-> s1, reply |-> confirmOrder(s1)]

\* handleOrderPrice that stores what extractNumber returns, found or not
handleOrderPrice_StoresUnparsed(session, utterance) ==
    LET p == extractNumber(utterance, <<>>)
    IN  IF ~p.found
        THEN [s |-> [session EXCEPT !.OrderPrice = p.num], reply |-> PriceRepromptText]
        ELSE LET s1 == [session EXCEPT !.OrderPrice = p.num, !.State = "confirming"]
             IN  [s |-> s1, reply |-> confirmOrder(s1)]

handleOrderPrice(session, utterance) ==
    LET p == extractNumber(utterance, <<>>)
    IN  IF ~p.found
        THEN [s |-> session, reply |-> PriceRepromptText]
        ELSE LET s1 == [session EXCEPT !.OrderPrice = p.num, !.State = "confirming"]
             IN  [s |-> s1, reply |-> confirmOrder(s1)]

\* handleConfirmation that, on a rejection, forgets the symbol and its price too
handleConfirmation_RejectClearsSymbol(session, utterance) ==
    IF Contains(utterance, W_YES) \/ Contains(utterance, W_CORRECT)
    THEN [s |-> [session EXCEPT !.State = "completed"], reply |-> CompletedText]
    ELSE IF Contains(utterance, W_NO) \/ Contains(utterance, W_WRONG)
    THEN [s |-> [session EXCEPT !.State = "symbol_selected", !.Symbol = <<>>,
                                !.Price = 0, !.Quantity = 0, !.OrderPrice = 0],
          reply |-> RejectedText]
    ELSE [s |-> session, reply |-> ConfirmRepromptText]

\* handleConfirmation that clears the order when it is accepted
handleConfirmation_AcceptClears(session, utterance) ==
    IF Contains(utterance, W_YES) \/ Contains(utterance, W_CORRECT)
    THEN [s |-> [session EXCEPT !.State = "completed", !.Quantity = 0, !.OrderPrice = 0],
          reply |-> CompletedText]
    ELSE IF Contains(utterance, W_NO) \/ Contains(utterance, W_WRONG)
    THEN [s |-> [session EXCEPT !.State = "symbol_selected",
                                !.Quantity = 0, !.OrderPrice = 0],
          reply |-> RejectedText]
    ELSE [s |-> session, reply |-> ConfirmRepromptText]

handleConfirmation(session, utterance) ==
    IF Contains(utterance, W_YES) \/ Contains(utterance, W_CORRECT)
    THEN [s |-> [session EXCEPT !.State = "completed"], reply |-> CompletedText]
    ELSE IF Contains(utterance, W_NO) \/ Contains(utterance, W_WRONG)
    THEN [s |-> [session EXCEPT !.State = "symbol_selected",
                                !.Quantity = 0, !.OrderPrice = 0],
          reply |-> RejectedText]
    ELSE [s |-> session, reply |-> ConfirmRepromptText]

\* processUserInput whose default branch resets the state and says nothing
processUserInput_SilentDefault(session, utterance, gw, order) ==
    IF session.State = "greeting" THEN handleExchangeSelection(session, utterance, order)
    ELSE IF session.State = "exchange_selected" THEN handleSymbolSelection(session, utterance, gw)
    ELSE IF session.State = "symbol_selected" THEN handleOrderDetails(session, utterance)
    ELSE IF session.State = "awaiting_quantity" THEN handleQuantity(session, utterance)
    ELSE IF session.State = "awaiting_price" THEN handleOrderPrice(session, utterance)
    ELSE IF session.State = "confirming" THEN handleConfirmation(session, utterance)
    ELSE [s |-> [session EXCEPT !.State = "greeting"], reply |-> <<>>]

\* processUserInput whose default branch starts over with a new session
processUserInput_DefaultClears(session, utterance, gw, order) ==
    IF session.State = "greeting" THEN handleExchangeSelection(session, utterance, order)
    ELSE IF session.State = "exchange_selected" THEN handleSymbolSelection(session, utterance, gw)
    ELSE IF session.State = "symbol_selected" THEN handleOrderDetails(session, utterance)
    ELSE IF session.State = "awaiting_quantity" THEN handleQuantity(session, utterance)
    ELSE IF session.State = "awaiting_price" THEN handleOrderPrice(session, utterance)
    ELSE IF session.State = "confirming" THEN handleConfirmation(session, utterance)
    ELSE [s |-> NewSession(session.CallID), reply |-> LostTrackText]

processUserInput(session, utterance, gw, order) ==
    IF session.State = "greeting" THEN handleExchangeSelection(session, utterance, order)
    ELSE IF session.State = "exchange_selected" THEN handleSymbolSelection(session, utterance, gw)
    ELSE IF session.State = "symbol_selected" THEN handleOrderDetails(session, utterance)
    ELSE IF session.State = "awaiting_quantity" THEN handleQuantity(session, utterance)
    ELSE IF session.State = "awaiting_price" THEN handleOrderPrice(session, utterance)
    ELSE IF session.State = "confirming" THEN handleConfirmation(session, utterance)
    ELSE [s |-> [session EXCEPT !.State = "greeting"], reply |-> LostTrackText]


(* ------------------------------------------------------------------ *)
(* the session store                                                    *)
(* ------------------------------------------------------------------ *)

\* the id generateSessionID returns when the random source fails
FallbackID == "fallback-session-id"

\* the ids the random source produces in the model
HexIDs == { "9f3a61c2" }

\* the call ids requests name
CallIDs == HexIDs \cup { FallbackID }

\* the goroutines that serve webhook requests
Threads == { "t1", "t2" }

\* Addresses of TradingSession objects: the objects made for one call id are told
\* apart by a slot number.  One is in the map, each goroutine may still hold an
\* older one and StartCall makes one more before it replaces the map entry, so
\* 2 + |Threads| slots are never exhausted.  Nil is the nil pointer.
Ptrs == CallIDs \X (1..(2 + Cardinality(Threads)))

Nil == <<"", 0>>

\* the content of an address that holds no object
NoRecord ==
    [CallID |-> "", State |-> "free", Exchange |-> <<>>, Symbol |-> <<>>,
     Price |-> 0, Quantity |-> 0, OrderPrice |-> 0]

VARIABLES
    sessions,   \* the sessions map: call id -> address (Nil: no entry)
    heap,       \* address -> TradingSession
    th,         \* per goroutine: the request it serves and where it stands in it
    reply,      \* the last HTTP response sent
    served,     \* the number of webhook requests received so far
    returned,   \* call id -> what getOrCreateSession last returned for it, Nil
                \* again once a session is put under the id
    epoch,      \* the two requests that were served side by side, see Receive
    page        \* the browser page: callStatus and what startCall and endCall left pending

vars == <<sessions, heap, th, reply, served, returned, epoch, page>>

\* webhook requests received in one run
MaxRequests == 5

\* &TradingSession{CallID: callID, ...}: the lowest slot of callID that holds no object
Allocate(hp, callID) ==
    CHOOSE p \in Ptrs :
        /\ p[1] = callID /\ hp[p] = NoRecord
        /\ \A q \in Ptrs : (q[1] = callID /\ hp[q] = NoRecord) => p[2] <= q[2]

\* objects no map entry and no goroutine refers to are reclaimed
Collect(hp, sess, thr) ==
    [p \in Ptrs |->
        IF (\E id \in CallIDs : sess[id] = p) \/ (\E t \in Threads : thr[t].session = p)
        THEN hp[p] ELSE NoRecord]

\* getOrCreateSession that makes a new session on every call
getOrCreateSession_AlwaysCreates(sess, hp, callID) ==
    LET p == Allocate(hp, callID)
    IN  [sessions |-> [sess EXCEPT ![callID] = p],
         heap     |-> [hp EXCEPT ![p] = NewSession(callID)],
         session  |-> p]

\* getOrCreateSession that makes the session of an unknown id and does not file it
getOrCreateSession_DoesNotStore(sess, hp, callID) ==
    IF sess[callID] # Nil
    THEN [sessions |-> sess, heap |-> hp, session |-> sess[callID]]
    ELSE LET p == Allocate(hp, callID)
         IN  [sessions |-> sess,
              heap     |-> [hp EXCEPT ![p] = NewSession(callID)],
              session  |-> p]

\* getOrCreateSession that starts the session it finds over
getOrCreateSession_ResetsExisting(sess, hp, callID) ==
    IF sess[callID] # Nil
    THEN [sessions |-> sess,
          heap     |-> [hp EXCEPT ![sess[callID]] = NewSession(callID)],
          session  |-> sess[callID]]
    ELSE LET p == Allocate(hp, callID)
         IN  [sessions |-> [sess EXCEPT ![callID] = p],
              heap     |-> [hp EXCEPT ![p] = NewSession(callID)],
              session  |-> p]

\* getOrCreateSession(callID), run under sessionsMux
getOrCreateSession(sess, hp, callID) ==
    IF sess[callID] # Nil
    THEN [sessions |-> sess, heap |-> hp, session |-> sess[callID]]
    ELSE LET p == Allocate(hp, callID)
         IN  [sessions |-> [sess EXCEPT ![callID] = p],
              heap     |-> [hp EXCEPT ![p] = NewSession(callID)],
              session  |-> p]

\* updateSession that files the record under every call id
updateSession_UnderEveryId(sess, hp, session) == [id \in DOMAIN sess |-> session]

\* updateSession(session), run under sessionsMux
updateSession(sess, hp, session) == [sess EXCEPT ![hp[session].CallID] = session]

\* generateSessionID: a random id, or the fallback when rand.Read fails
generateSessionID(sess, randOk) ==
    IF randOk THEN { id \in HexIDs : sess[id] = Nil } ELSE { FallbackID }

\* a goroutine that serves no request; the fields after session are the locals of
\* the handler it runs
IdleThread ==
    [pc |-> "idle", callID |-> "", payload |-> <<>>, utterance |-> <<>>, session |-> Nil,
     name |-> <<>>, potentialSymbol |-> <<>>, price |-> 0, quantity |-> 0,
     summary |-> <<>>, response |-> <<>>]

NoReply == [status |-> 0, call_id |-> "", text |-> <<>>]

\* no two requests have overlapped: n counts the requests received since no
\* request was in progress, base is the session the first of them met, done
\* lists payload and response of those that have returned
NoEpoch == [n |-> 0, id |-> "", base |-> NoRecord, done |-> <<>>]

\* the page as it is loaded: useState({ isActive: false, status: 'idle' }), no
\* fetch of startCall in flight, no timer of endCall pending, no click made, no
\* call started
IdlePage ==
    [isActive |-> FALSE, status |-> "idle", callId |-> "", fetches |-> 0,
     timers |-> 0, clicks |-> 0, started |-> 0]

Init ==
    /\ sessions = [id \in CallIDs |-> Nil]
    /\ heap = [p \in Ptrs |-> NoRecord]
    /\ th = [t \in Threads |-> IdleThread]
    /\ reply = NoReply
    /\ served = 0
    /\ returned = [id \in CallIDs |-> Nil]
    /\ epoch = NoEpoch
    /\ page = IdlePage

\* StartCall
StartCall(randOk) ==
    \E callID \in generateSessionID(sessions, randOk) :
        LET p     == Allocate(heap, callID)
            hp1   == [heap EXCEPT ![p] = NewSession(callID)]
            sess1 == updateSession(sessions, hp1, p)
        IN  /\ sessions' = sess1
            /\ heap' = Collect(hp1, sess1, th)
            /\ reply' = [status |-> 200, call_id |-> callID, text |-> GreetingText]
            /\ returned' = [returned EXCEPT ![callID] = Nil]
            /\ UNCHANGED <<th, served, epoch, page>>

\* the upstream answers a request can meet: a lookup is made in exchange_selected only
GatewayFor(state) == IF state = "exchange_selected" THEN Gateway ELSE { NoCall }

\* the iteration orders a request can meet: the map is ranged over in greeting only
OrdersFor(state) ==
    IF state = "greeting" THEN IterationOrders
    ELSE { LiteralOrder }

\* HandleBlandWebhook that looks the session up before it finds that the payload
\* does not decode
BadPayload_LooksUp ==
    \E callID \in CallIDs :
        LET g == getOrCreateSession(sessions, heap, callID)
        IN  /\ sessions' = g.sessions
            /\ heap' = g.heap
            /\ reply' = [status |-> 400, call_id |-> "", text |-> InvalidPayloadText]
            /\ UNCHANGED <<th, served, returned, epoch, page>>

\* HandleBlandWebhook on a payload that does not decode
BadPayload ==
    /\ reply' = [status |-> 400, call_id |-> "", text |-> InvalidPayloadText]
    /\ UNCHANGED <<sessions, heap, th, served, returned, epoch, page>>

\* HandleBlandWebhook that answers a call id it does not know with the greeting
\* and leaves the utterance unread
WebhookStep_GreetsUnknown(callID, payload, gw, order) ==
    LET g         == getOrCreateSession(sessions, heap, callID)
        session   == g.heap[g.session]
        utterance == ToLower(TrimSpace(payload))
        r         == IF sessions[callID] = Nil
                     THEN [s |-> session, reply |-> GreetingText]
                     ELSE processUserInput(session, utterance, gw, order)
        hp1       == [g.heap EXCEPT ![g.session] = r.s]
        sess1     == updateSession(g.sessions, hp1, g.session)
    IN  /\ served < MaxRequests
        /\ gw \in GatewayFor(session.State)
        /\ order \in OrdersFor(session.State)
        /\ sessions' = sess1
        /\ heap' = Collect(hp1, sess1, th)
        /\ reply' = [status |-> 200, call_id |-> "", text |-> r.reply]
        /\ served' = served + 1
        /\ UNCHANGED <<th, returned, epoch, page>>

\* HandleBlandWebhook, served with no other request in progress, for the upstream
\* answer gw and the map iteration order that the request meets
WebhookStep(callID, payload, gw, order) ==
    LET g         == getOrCreateSession(sessions, heap, callID)
        session   == g.heap[g.session]
        utterance == ToLower(TrimSpace(payload))
        r         == processUserInput(session, utterance, gw, order)
        hp1       == [g.heap EXCEPT ![g.session] = r.s]
        sess1     == updateSession(g.sessions, hp1, g.session)
    IN  /\ served < MaxRequests
        /\ gw \in GatewayFor(session.State)
        /\ order \in OrdersFor(session.State)
        /\ sessions' = sess1
        /\ heap' = Collect(hp1, sess1, th)
        /\ reply' = [status |-> 200, call_id |-> "", text |-> r.reply]
        /\ served' = served + 1
        /\ UNCHANGED <<th, returned, epoch, page>>

\* the state in which a request for callID finds the session
StateMet(callID) ==
    IF sessions[callID] = Nil THEN "greeting" ELSE heap[sessions[callID]].State

HandleBlandWebhook(callID, payload) ==
    \E gw \in GatewayFor(StateMet(callID)), order \in OrdersFor(StateMet(callID)) :
        WebhookStep(callID, payload, gw, order)

Next ==
    \/ \E randOk \in BOOLEAN : StartCall(randOk)
    \/ \E callID \in CallIDs, payload \in Payloads : HandleBlandWebhook(callID, payload)
    \/ BadPayload

Spec == Init /\ [][Next]_vars

(* ------------------------------------------------------------------ *)
(* HandleBlandWebhook on concurrent goroutines                          *)
(*                                                                      *)
(* getOrCreateSession and updateSession run under sessionsMux and are   *)
(* one step each.  processUserInput runs on the shared *TradingSession  *)
(* with no lock held: every read and every write of a field of the      *)
(* session is a step of its own, and what a goroutine computes on its   *)
(* locals is part of the step that makes its next access.               *)
(* ------------------------------------------------------------------ *)

\* the session object goroutine t works on
Obj(t) == heap[th[t].session]

Goto(t, pc) == th' = [th EXCEPT ![t].pc = pc]

\* the handler returns response: what is left is HandleBlandWebhook line 99
Return(t, response) == th' = [th EXCEPT ![t].pc = "update", ![t].response = response]

\* lines 88-95: bind the payload, getOrCreateSession, normalise the utterance
Receive(t, callID, payload) ==
    LET g == getOrCreateSession(sessions, heap, callID)
    IN  /\ th[t].pc = "idle"
        /\ served < MaxRequests
        /\ sessions' = g.sessions
        /\ heap' = g.heap
        /\ th' = [th EXCEPT ![t] = [IdleThread EXCEPT
                     !.pc = "dispatch", !.callID = callID, !.payload = payload,
                     !.utterance = ToLower(TrimSpace(payload)), !.session = g.session]]
        /\ served' = served + 1
        /\ returned' = [returned EXCEPT ![callID] = g.session]
        /\ epoch' = IF \A o \in Threads : th[o].pc = "idle"
                     THEN [n |-> 1, id |-> callID, base |-> g.heap[g.session], done |-> <<>>]
                     ELSE IF epoch.n = 1 /\ epoch.id = callID
                     THEN [epoch EXCEPT !.n = 2]
                     ELSE NoEpoch
        /\ UNCHANGED <<reply, page>>

\* processUserInput: the switch reads session.State; the handler chosen runs up to
\* its first access to the session
Dispatch(t) ==
    LET state     == Obj(t).State
        utterance == th[t].utterance
    IN  /\ th[t].pc = "dispatch"
        /\ IF state = "greeting" THEN
               \E order \in IterationOrders :
                   LET i == FirstMatch(utterance, order)
                   IN  /\ IF i # 0
                          THEN th' = [th EXCEPT ![t].pc = "hes_exchange",
                                                ![t].name = ExchangeName(order[i])]
                          ELSE Return(t, ExchangeRepromptText)
                       /\ UNCHANGED heap
           ELSE IF state = "exchange_selected" THEN
               /\ th' = [th EXCEPT ![t].pc = "hss_fetch",
                                   ![t].potentialSymbol = ToUpper(utterance)]
               /\ UNCHANGED heap
           ELSE IF state = "symbol_selected" THEN
               LET q == extractNumber(utterance, <<"quantity", "amount", "size">>)
                   p == extractNumber(utterance, <<"price", "at", "for">>)
               IN  /\ th' = [th EXCEPT ![t].quantity = q.num, ![t].price = p.num,
                                       ![t].pc = IF q.found THEN "hod_quantity"
                                                 ELSE IF p.found THEN "hod_price"
                                                 ELSE "hod_if"]
                   /\ UNCHANGED heap
           ELSE IF state = "awaiting_quantity" THEN
               LET q == extractNumber(utterance, <<>>)
               IN  /\ IF ~q.found THEN Return(t, QuantityRepromptText)
                      ELSE th' = [th EXCEPT ![t].pc = "hq_quantity", ![t].quantity = q.num]
                   /\ UNCHANGED heap
           ELSE IF state = "awaiting_price" THEN
               LET p == extractNumber(utterance, <<>>)
               IN  /\ IF ~p.found THEN Return(t, PriceRepromptText)
                      ELSE th' = [th EXCEPT ![t].pc = "hop_price", ![t].price = p.num]
                   /\ UNCHANGED heap
           ELSE IF state = "confirming" THEN
               /\ IF Contains(utterance, W_YES) \/ Contains(utterance, W_CORRECT)
                  THEN Goto(t, "hc_completed")
                  ELSE IF Contains(utterance, W_NO) \/ Contains(utterance, W_WRONG)
                  THEN Goto(t, "hc_state")
                  ELSE Return(t, ConfirmRepromptText)
               /\ UNCHANGED heap
           ELSE
               \* default: the state is written in the step that read it
               /\ heap' = [heap EXCEPT ![th[t].session].State = "greeting"]
               /\ Return(t, LostTrackText)
        /\ UNCHANGED <<sessions, reply, served, returned, epoch, page>>

\* handleExchangeSelection, lines 161-163
HandleExchangeSelection(t) ==
    /\ \/ /\ th[t].pc = "hes_exchange"
          /\ heap' = [heap EXCEPT ![th[t].session].Exchange = th[t].name]
          /\ Goto(t, "hes_state")
       \/ /\ th[t].pc = "hes_state"
          /\ heap' = [heap EXCEPT ![th[t].session].State = "exchange_selected"]
          /\ Return(t, ExchangeChosenText(th[t].name))
    /\ UNCHANGED <<sessions, reply, served, returned, epoch, page>>

\* handleSymbolSelection that makes the lookup a second time when the first fails
HandleSymbolSelection_RetriesOnce(t) ==
    /\ \/ /\ th[t].pc = "hss_fetch"
          /\ \E gw \in Gateway :
                 LET got == fetchCurrentPrice(Obj(t).Exchange, th[t].potentialSymbol, gw)
                 IN  IF got.err # "nil"
                     THEN Goto(t, "hss_retry")
                     ELSE th' = [th EXCEPT ![t].pc = "hss_symbol", ![t].price = got.price]
          /\ UNCHANGED heap
       \/ /\ th[t].pc = "hss_retry"
          /\ \E gw \in Gateway :
                 LET got == fetchCurrentPrice(Obj(t).Exchange, th[t].potentialSymbol, gw)
                 IN  IF got.err # "nil"
                     THEN Return(t, PriceApologyText(th[t].potentialSymbol))
                     ELSE th' = [th EXCEPT ![t].pc = "hss_symbol", ![t].price = got.price]
          /\ UNCHANGED heap
       \/ /\ th[t].pc = "hss_symbol"
          /\ heap' = [heap EXCEPT ![th[t].session].Symbol = th[t].potentialSymbol]
          /\ Goto(t, "hss_price")
       \/ /\ th[t].pc = "hss_price"
          /\ heap' = [heap EXCEPT ![th[t].session].Price = th[t].price]
          /\ Goto(t, "hss_state")
       \/ /\ th[t].pc = "hss_state"
          /\ heap' = [heap EXCEPT ![th[t].session].State = "symbol_selected"]
          /\ Goto(t, "hss_reply")
       \/ /\ th[t].pc = "hss_reply"
          /\ Return(t, PriceQuoteText(th[t].potentialSymbol, Obj(t).Exchange, th[t].price))
          /\ UNCHANGED heap
    /\ UNCHANGED <<sessions, reply, served, returned, epoch, page>>

\* handleSymbolSelection, lines 171-180: the lookup, then the three writes, then the
\* read of session.Exchange for the reply
HandleSymbolSelection(t) ==
    /\ \/ /\ th[t].pc = "hss_fetch"
          /\ \E gw \in Gateway :
                 LET got == fetchCurrentPrice(Obj(t).Exchange, th[t].potentialSymbol, gw)
                 IN  IF got.err # "nil"
                     THEN Return(t, PriceApologyText(th[t].potentialSymbol))
                     ELSE th' = [th EXCEPT ![t].pc = "hss_symbol", ![t].price = got.price]
          /\ UNCHANGED heap
       \/ /\ th[t].pc = "hss_symbol"
          /\ heap' = [heap EXCEPT ![th[t].session].Symbol = th[t].potentialSymbol]
          /\ Goto(t, "hss_price")
       \/ /\ th[t].pc = "hss_price"
          /\ heap' = [heap EXCEPT ![th[t].session].Price = th[t].price]
          /\ Goto(t, "hss_state")
       \/ /\ th[t].pc = "hss_state"
          /\ heap' = [heap EXCEPT ![th[t].session].State = "symbol_selected"]
          /\ Goto(t, "hss_reply")
       \/ /\ th[t].pc = "hss_reply"
          /\ Return(t, PriceQuoteText(th[t].potentialSymbol, Obj(t).Exchange, th[t].price))
          /\ UNCHANGED heap
    /\ UNCHANGED <<sessions, reply, served, returned, epoch, page>>

\* handleOrderDetails, lines 187-205: the two writes, then the reads of the if chain
HandleOrderDetails(t) ==
    /\ \/ /\ th[t].pc = "hod_quantity"
          /\ heap' = [heap EXCEPT ![th[t].session].Quantity = th[t].quantity]
          /\ Goto(t, "hod_price")
       \/ /\ th[t].pc = "hod_price"
          /\ heap' = [heap EXCEPT ![th[t].session].OrderPrice = th[t].price]
          /\ Goto(t, "hod_if")
       \/ /\ th[t].pc = "hod_if"
          /\ Goto(t, IF Obj(t).Quantity > 0 THEN "hod_if_and" ELSE "hod_elif")
          /\ UNCHANGED heap
       \/ /\ th[t].pc = "hod_if_and"
          /\ Goto(t, IF Obj(t).OrderPrice > 0 THEN "hod_confirming" ELSE "hod_elif")
          /\ UNCHANGED heap
       \/ /\ th[t].pc = "hod_confirming"
          /\ heap' = [heap EXCEPT ![th[t].session].State = "confirming"]
          /\ Goto(t, "co_quantity")
       \/ /\ th[t].pc = "hod_elif"
          /\ Goto(t, IF Obj(t).Quantity > 0 THEN "hod_awaiting_price" ELSE "hod_elif2")
          /\ UNCHANGED heap
       \/ /\ th[t].pc = "hod_awaiting_price"
          /\ heap' = [heap EXCEPT ![th[t].session].State = "awaiting_price"]
          /\ Return(t, AskPriceText)
       \/ /\ th[t].pc = "hod_elif2"
          /\ IF Obj(t).OrderPrice > 0 THEN Goto(t, "hod_awaiting_quantity")
             ELSE Return(t, NeedBothText)
          /\ UNCHANGED heap
       \/ /\ th[t].pc = "hod_awaiting_quantity"
          /\ heap' = [heap EXCEPT ![th[t].session].State = "awaiting_quantity"]
          /\ Return(t, AskQuantityText)
    /\ UNCHANGED <<sessions, reply, served, returned, epoch, page>>

\* handleQuantity, lines 213-215
HandleQuantity(t) ==
    /\ \/ /\ th[t].pc = "hq_quantity"
          /\ heap' = [heap EXCEPT ![th[t].session].Quantity = th[t].quantity]
          /\ Goto(t, "hq_state")
       \/ /\ th[t].pc = "hq_state"
          /\ heap' = [heap EXCEPT ![th[t].session].State = "confirming"]
          /\ Goto(t, "co_quantity")
    /\ UNCHANGED <<sessions, reply, served, returned, epoch, page>>

\* handleOrderPrice, lines 223-225
HandleOrderPrice(t) ==
    /\ \/ /\ th[t].pc = "hop_price"
          /\ heap' = [heap EXCEPT ![th[t].session].OrderPrice = th[t].price]
          /\ Goto(t, "hop_state")
       \/ /\ th[t].pc = "hop_state"
          /\ heap' = [heap EXCEPT ![th[t].session].State = "confirming"]
          /\ Goto(t, "co_quantity")
    /\ UNCHANGED <<sessions, reply, served, returned, epoch, page>>

\* handleConfirmation, lines 230-236
HandleConfirmation(t) ==
    /\ \/ /\ th[t].pc = "hc_completed"
          /\ heap' = [heap EXCEPT ![th[t].session].State = "completed"]
          /\ Return(t, CompletedText)
       \/ /\ th[t].pc = "hc_state"
          /\ heap' = [heap EXCEPT ![th[t].session].State = "symbol_selected"]
          /\ Goto(t, "hc_quantity")
       \/ /\ th[t].pc = "hc_quantity"
          /\ heap' = [heap EXCEPT ![th[t].session].Quantity = 0]
          /\ Goto(t, "hc_price")
       \/ /\ th[t].pc = "hc_price"
          /\ heap' = [heap EXCEPT ![th[t].session].OrderPrice = 0]
          /\ Return(t, RejectedText)
    /\ UNCHANGED <<sessions, reply, served, returned, epoch, page>>

\* confirmOrder, lines 242-243: the arguments of Sprintf are read one by one
ConfirmOrder(t) ==
    /\ \/ /\ th[t].pc = "co_quantity"
          /\ th' = [th EXCEPT ![t].pc = "co_symbol",
                              ![t].summary = <<"Got it. To confirm, you want to trade ">>
                                             \o Fmt4(Obj(t).Quantity) \o <<" ">>]
       \/ /\ th[t].pc = "co_symbol"
          /\ th' = [th EXCEPT ![t].pc = "co_price",
                              ![t].summary = @ \o Obj(t).Symbol \o <<" at $">>]
       \/ /\ th[t].pc = "co_price"
          /\ th' = [th EXCEPT ![t].pc = "co_exchange",
                              ![t].summary = @ \o Fmt4(Obj(t).OrderPrice)
                                             \o <<" per unit on ">>]
       \/ /\ th[t].pc = "co_exchange"
          /\ th' = [th EXCEPT ![t].pc = "update", ![t].summary = <<>>,
                              ![t].response = th[t].summary \o Obj(t).Exchange
                                              \o <<". Is that correct?">>]
    /\ UNCHANGED <<sessions, heap, reply, served, returned, epoch, page>>

\* lines 99-101: updateSession, then the response is sent
Update(t) ==
    LET sess1 == updateSession(sessions, heap, th[t].session)
        thr1  == [th EXCEPT ![t] = IdleThread]
    IN  /\ th[t].pc = "update"
        /\ sessions' = sess1
        /\ th' = thr1
        /\ heap' = Collect(heap, sess1, thr1)
        /\ reply' = [status |-> 200, call_id |-> "", text |-> th[t].response]
        /\ returned' = [returned EXCEPT ![heap[th[t].session].CallID] = Nil]
        /\ epoch' = IF epoch.n = 2
                     THEN [epoch EXCEPT !.done = Append(@, [payload  |-> th[t].payload,
                                                            response |-> th[t].response])]
                     ELSE NoEpoch
        /\ UNCHANGED <<served, page>>

\* The requests that goroutines serve side by side: all for one call id, which the
\* random source gave or a caller made up.  A request that does not decode and a
\* StartCall whose random source fails touch no session of that id.
ConcCallIDs == HexIDs

ConcPayloads == { P_WantOkx, P_OneAndHalfAt65000, P_MinusFive, P_No, P_YesPlease }

ConcNext ==
    \/ \E randOk \in { TRUE } : StartCall(randOk)
    \/ \E t \in Threads, callID \in ConcCallIDs, payload \in ConcPayloads :
           Receive(t, callID, payload)
    \/ \E t \in Threads : Dispatch(t)
    \/ \E t \in Threads : HandleExchangeSelection(t)
    \/ \E t \in Threads : HandleSymbolSelection(t)
    \/ \E t \in Threads : HandleOrderDetails(t)
    \/ \E t \in Threads : HandleQuantity(t)
    \/ \E t \in Threads : HandleOrderPrice(t)
    \/ \E t \in Threads : HandleConfirmation(t)
    \/ \E t \in Threads : ConfirmOrder(t)
    \/ \E t \in Threads : Update(t)

ConcSpec == Init /\ [][ConcNext]_vars

(* ------------------------------------------------------------------ *)
(* properties                                                           *)
(* ------------------------------------------------------------------ *)

\* the session the map holds under id (for ids the map knows)
Stored(id) == heap[sessions[id]]

\* the session the map holds under id after the step
StoredNext(id) == heap'[sessions'[id]]

\* 1.5 and 65000 as ParseFloat returns them
OneAndHalf == ParseFloat(<<"1", ".", "5">>).num

SixtyFiveThousand == ParseFloat(<<"6", "5", "0", "0", "0">>).num

\* C1: with requests served one at a time, a session the store holds in state
\* confirming has a quantity above zero and a limit price above zero.
C1_ConfirmingHasQuantityAndPrice ==
    \A id \in CallIDs :
        (sessions[id] # Nil /\ Stored(id).State = "confirming")
            => (Stored(id).Quantity > 0 /\ Stored(id).OrderPrice > 0)

\* a session has reached confirming through an utterance that gave a number
C1_Witness ==
    \E id \in CallIDs :
        /\ sessions[id] # Nil
        /\ Stored(id).State = "confirming"
        /\ Stored(id).Quantity = OneAndHalf
        /\ reply.text = confirmOrder(Stored(id))

\* C4: completed is terminal: a webhook request that finds the session in state
\* completed leaves it in state completed.
C4_CompletedIsTerminal ==
    [][\A id \in CallIDs, payload \in Payloads :
          (/\ sessions[id] # Nil
           /\ Stored(id).State = "completed"
           /\ WebhookStep(id, payload, NoCall, LiteralOrder))
              => (sessions'[id] # Nil /\ StoredNext(id).State = "completed")]_vars

\* a session that went through a whole order is back in greeting, the reply being
\* the one of the default branch of processUserInput
C4_Witness ==
    \E id \in CallIDs :
        /\ sessions[id] # Nil
        /\ Stored(id).State = "greeting"
        /\ Stored(id).Quantity > 0
        /\ reply.text = LostTrackText

\* C5: an utterance with two numbers, given in state symbol_selected, stores the
\* first as the quantity and the second as the limit price and moves to confirming.
C5_TwoNumbersAreQuantityAndPrice ==
    [][\A id \in CallIDs :
          (/\ sessions[id] # Nil
           /\ Stored(id).State = "symbol_selected"
           /\ WebhookStep(id, P_OneAndHalfAt65000, NoCall, LiteralOrder))
              => (/\ StoredNext(id).State = "confirming"
                  /\ StoredNext(id).Quantity = OneAndHalf
                  /\ StoredNext(id).OrderPrice = SixtyFiveThousand)]_vars

\* the session confirms an order whose limit price is the quantity that was said
C5_Witness ==
    \E id \in CallIDs :
        /\ sessions[id] # Nil
        /\ Stored(id).State = "confirming"
        /\ Stored(id).Quantity = OneAndHalf
        /\ Stored(id).OrderPrice = OneAndHalf

\* C6: in state confirming an utterance that contains "no" or "wrong" rejects the
\* order: the session returns to symbol_selected with quantity and limit price
\* zero, whatever else the utterance contains.
C6_NoOrWrongRejects ==
    [][\A id \in CallIDs, payload \in Payloads :
          (/\ sessions[id] # Nil
           /\ Stored(id).State = "confirming"
           /\ \/ Contains(ToLower(TrimSpace(payload)), W_NO)
              \/ Contains(ToLower(TrimSpace(payload)), W_WRONG)
           /\ WebhookStep(id, payload, NoCall, LiteralOrder))
              => (/\ StoredNext(id).State = "symbol_selected"
                  /\ StoredNext(id).Quantity = 0
                  /\ StoredNext(id).OrderPrice = 0)]_vars

C10_UnknownIdIsCreatedAndDispatched ==
    [][\A id \in CallIDs, payload \in Payloads, order \in IterationOrders :
          (sessions[id] = Nil /\ WebhookStep(id, payload, NoCall, order))
              => LET utterance == ToLower(TrimSpace(payload))
                     named     == { k \in ExchangeKeys : Contains(utterance, k) }
                 IN  /\ sessions'[id] # Nil
                     /\ StoredNext(id).CallID = id
                     /\ StoredNext(id).Symbol = <<>>
                     /\ StoredNext(id).Price = 0
                     /\ StoredNext(id).Quantity = 0
                     /\ StoredNext(id).OrderPrice = 0
                     /\ IF named # {}
                        THEN /\ StoredNext(id).State = "exchange_selected"
                             /\ \E k \in named : StoredNext(id).Exchange = ExchangeName(k)
                             /\ reply'.text = ExchangeChosenText(StoredNext(id).Exchange)
                        ELSE /\ StoredNext(id).State = "greeting"
                             /\ StoredNext(id).Exchange = <<>>
                             /\ reply'.text = ExchangeRepromptText]_vars

\* the first request served named a venue: its session, the only one there is,
\* is in exchange_selected
C10_Witness ==
    /\ served = 1
    /\ sessions[FallbackID] = Nil
    /\ \E id \in HexIDs :
           /\ sessions[id] # Nil
           /\ Stored(id).State = "exchange_selected"
           /\ Stored(id).Exchange = N_OKX
           /\ reply.text = ExchangeChosenText(N_OKX)

(* ------------------------------------------------------------------ *)
(* properties of concurrent requests                                    *)
(* ------------------------------------------------------------------ *)

\* the requests a and b, served one after the other from the session base, can
\* end with the session final
SerialOutcome(base, a, b, final) ==
    \E gw1 \in GatewayFor(base.State), order1 \in OrdersFor(base.State) :
        LET r1 == processUserInput(base, ToLower(TrimSpace(a.payload)), gw1, order1)
        IN  \E gw2 \in GatewayFor(r1.s.State), order2 \in OrdersFor(r1.s.State) :
                processUserInput(r1.s, ToLower(TrimSpace(b.payload)), gw2, order2).s = final

\* the same, and the two responses are those that were sent
SerialRun(base, a, b, final) ==
    \E gw1 \in GatewayFor(base.State), order1 \in OrdersFor(base.State) :
        LET r1 == processUserInput(base, ToLower(TrimSpace(a.payload)), gw1, order1)
        IN  /\ r1.reply = a.response
            /\ \E gw2 \in GatewayFor(r1.s.State), order2 \in OrdersFor(r1.s.State) :
                   LET r2 == processUserInput(r1.s, ToLower(TrimSpace(b.payload)), gw2, order2)
                   IN  r2.reply = b.response /\ r2.s = final

\* two requests for one call id overlapped and both have returned
EpochOver == epoch.n = 2 /\ Len(epoch.done) = 2

\* C2: the load of the session, the state-machine step and the write-back of a
\* webhook request are one atomic unit: when two requests for a call id overlap,
\* the session they leave and the two replies are those of serving the two
\* requests one after the other in one of the two orders.
C2_RequestsAreSerializable ==
    EpochOver =>
        \/ SerialRun(epoch.base, epoch.done[1], epoch.done[2], Stored(epoch.id))
        \/ SerialRun(epoch.base, epoch.done[2], epoch.done[1], Stored(epoch.id))

\* two requests that overlapped have left a session that no serial order leaves
C2_Witness ==
    /\ EpochOver
    /\ \A t \in Threads : th[t].pc = "idle"
    /\ ~ SerialOutcome(epoch.base, epoch.done[1], epoch.done[2], Stored(epoch.id))
    /\ ~ SerialOutcome(epoch.base, epoch.done[2], epoch.done[1], Stored(epoch.id))

\* C3: under any interleaving of requests for one call id, no session the store
\* holds is in state confirming with quantity zero or limit price zero.
C3_NoConfirmingWithZero ==
    \A id \in CallIDs :
        (sessions[id] # Nil /\ Stored(id).State = "confirming")
            => (Stored(id).Quantity # 0 /\ Stored(id).OrderPrice # 0)

\* no request is in progress and the stored session asks to confirm an order
\* whose quantity or limit price is zero
C3_Witness ==
    /\ \A t \in Threads : th[t].pc = "idle"
    /\ \E id \in CallIDs :
           /\ sessions[id] # Nil
           /\ Stored(id).State = "confirming"
           /\ (Stored(id).Quantity = 0 \/ Stored(id).OrderPrice = 0)

\* C8: once getOrCreateSession has returned a session for a call id, a second
\* getOrCreateSession for that id, made before any updateSession for it, returns
\* the same session object and leaves the store as it was.
C8_SecondLoadReturnsSameRecord ==
    [][\A t \in Threads, id \in CallIDs :
          (/\ th[t].pc = "idle"
           /\ th'[t].pc = "dispatch"
           /\ th'[t].callID = id
           /\ returned[id] # Nil)
              => (/\ th'[t].session = returned[id]
                  /\ sessions' = sessions
                  /\ heap' = heap)]_vars

\* two goroutines hold the session that getOrCreateSession returned to each, and
\* no updateSession has been made since
C8_Witness ==
    \E t1 \in Threads : \E t2 \in Threads \ {t1} :
        /\ th[t1].pc # "idle"
        /\ th[t2].pc = "dispatch"
        /\ th[t1].callID = th[t2].callID
        /\ returned[th[t2].callID] = th[t2].session
        /\ th[t1].session = th[t2].session

\* the objects that are sessions of call id
ObjectsOf(id) == { p \in Ptrs : heap[p].CallID = id }

Talk(callID, payload, gw, order) ==
    LET g         == getOrCreateSession(sessions, heap, callID)
        session   == g.heap[g.session]
        utterance == ToLower(TrimSpace(payload))
        r         == processUserInput(session, utterance, gw, order)
        hp1       == [g.heap EXCEPT ![g.session] = r.s]
        sess1     == updateSession(g.sessions, hp1, g.session)
    IN  /\ gw \in GatewayFor(session.State)
        /\ order \in OrdersFor(session.State)
        /\ sessions' = sess1
        /\ heap' = Collect(hp1, sess1, th)
        /\ reply' = [status |-> 200, call_id |-> "", text |-> r.reply]
        /\ UNCHANGED <<th, served, returned, epoch, page>>

\* the conversation of one call: the session is made by StartCall or by the first
\* webhook request, and changed by webhook requests only
TalkNext ==
    \/ \E randOk \in { TRUE } : StartCall(randOk)
    \/ \E callID \in HexIDs, payload \in TalkPayloads :
           \E gw \in GatewayFor(StateMet(callID)), order \in OrdersFor(StateMet(callID)) :
               Talk(callID, payload, gw, order)

TalkSpec == Init /\ [][TalkNext]_vars

\* the values of TradingSession.State that processUserInput has a case for
HandledStates ==
    { "greeting", "exchange_selected", "symbol_selected",
      "awaiting_quantity", "awaiting_price", "confirming" }

\* a value of State that no code writes
S_Paused == "paused"

\* how far a sample session has got: nothing chosen, the exchange chosen, the
\* symbol chosen and quoted
SampleProgress ==
    { [Exchange |-> <<>>,    Symbol |-> <<>>,                 Price |-> 0],
      [Exchange |-> N_BYBIT, Symbol |-> <<>>,                 Price |-> 0],
      [Exchange |-> N_BYBIT, Symbol |-> <<"D", "O", "G", "E">>, Price |-> MockPrice] }

\* TradingSession values that processUserInput is applied to
SessionSamples ==
    { [CallID |-> id, State |-> st, Exchange |-> pr.Exchange, Symbol |-> pr.Symbol,
       Price |-> pr.Price, Quantity |-> q, OrderPrice |-> p] :
          id \in HexIDs,
          st \in HandledStates \cup { "completed", S_Paused },
          pr \in SampleProgress,
          q \in { 0, OneAndHalf, 0 - OneAndHalf },
          p \in { 0, OneAndHalf, SixtyFiveThousand } }

\* the store holds one session, which is any of SessionSamples
StepInit ==
    \E s \in SessionSamples :
        /\ sessions = [id \in CallIDs |-> IF id = s.CallID THEN <<id, 1>> ELSE Nil]
        /\ heap = [p \in Ptrs |-> IF p = <<s.CallID, 1>> THEN s ELSE NoRecord]
        /\ th = [t \in Threads |-> IdleThread]
        /\ reply = NoReply
        /\ served = 0
        /\ returned = [id \in CallIDs |-> Nil]
        /\ epoch = NoEpoch
        /\ page = IdlePage

\* one request is served for the session, whatever it is
StepNext ==
    /\ reply = NoReply
    /\ \E callID \in HexIDs, payload \in TalkPayloads :
           \E gw \in GatewayFor(StateMet(callID)), order \in OrdersFor(StateMet(callID)) :
               Talk(callID, payload, gw, order)

\* processUserInput applied once to each of SessionSamples
StepSpec == StepInit /\ [][StepNext]_vars

(* ------------------------------------------------------------------ *)
(* properties of one step of the conversation                           *)
(* ------------------------------------------------------------------ *)

\* the exchanges whose key the payload contains, letter case set aside
Named(payload) == { k \in ExchangeKeys : Contains(ToLower(TrimSpace(payload)), k) }

\* C11: in state greeting an utterance that names, in any letter case, at least
\* one of OKX, Bybit, Deribit, Binance moves the session to exchange_selected
\* with Exchange the canonical name of an exchange the utterance names, the other
\* fields as they were; an utterance that names none changes nothing.
C11_GreetingTakesANamedExchange ==
    [][\A id \in HexIDs, payload \in TalkPayloads, order \in IterationOrders :
          (/\ sessions[id] # Nil
           /\ Stored(id).State = "greeting"
           /\ Talk(id, payload, NoCall, order))
              => IF Named(payload) # {}
                 THEN /\ \E k \in Named(payload) :
                             StoredNext(id) = [Stored(id) EXCEPT !.State = "exchange_selected",
                                                                 !.Exchange = ExchangeName(k)]
                      /\ reply'.text = ExchangeChosenText(StoredNext(id).Exchange)
                 ELSE /\ sessions' = sessions
                      /\ heap' = heap
                      /\ reply'.text = ExchangeRepromptText]_vars

\* "OKX or Bybit", the one utterance that names Bybit, has chosen Bybit
C11_Witness ==
    \E id \in HexIDs :
        /\ sessions[id] # Nil
        /\ Stored(id).State = "exchange_selected"
        /\ Stored(id).Exchange = N_BYBIT
        /\ reply.text = ExchangeChosenText(N_BYBIT)

\* C12: in state exchange_selected, when the price lookup succeeds with price p
\* the session moves to symbol_selected with Symbol the trimmed, upper-cased
\* utterance and Price p; Exchange and the other fields are as they were.
C12_LookupStoresSymbolAndPrice ==
    [][\A id \in HexIDs, payload \in TalkPayloads, gw \in Gateway :
          (/\ sessions[id] # Nil
           /\ Stored(id).State = "exchange_selected"
           /\ ~ GatewayFailed(gw)
           /\ Talk(id, payload, gw, LiteralOrder))
              => LET p == IF gw.kind = "found" THEN gw.usd ELSE MockPrice
                 IN  /\ StoredNext(id) = [Stored(id) EXCEPT
                                            !.State = "symbol_selected",
                                            !.Symbol = ToUpper(TrimSpace(payload)),
                                            !.Price = p]
                     /\ reply'.text = PriceQuoteText(ToUpper(TrimSpace(payload)),
                                                     Stored(id).Exchange, p)]_vars

\* " Doge " has been looked up and quoted: the symbol stored is DOGE
C12_Witness ==
    \E id \in HexIDs :
        /\ sessions[id] # Nil
        /\ Stored(id).State = "symbol_selected"
        /\ Stored(id).Symbol = <<"D", "O", "G", "E">>
        /\ Stored(id).Price = QuotedPrice
        /\ reply.text = PriceQuoteText(<<"D", "O", "G", "E">>, Stored(id).Exchange, QuotedPrice)

\* C13: in state confirming an utterance that contains "yes" or "correct" moves
\* the session to completed, every other field as it was; an utterance that
\* contains none of "yes", "correct", "no", "wrong" changes nothing.
C13_AcceptKeepsTheOrder ==
    [][\A id \in HexIDs, payload \in TalkPayloads :
          (/\ sessions[id] # Nil
           /\ Stored(id).State = "confirming"
           /\ Talk(id, payload, NoCall, LiteralOrder))
              => LET utterance == ToLower(TrimSpace(payload))
                 IN  IF Contains(utterance, W_YES) \/ Contains(utterance, W_CORRECT)
                     THEN /\ StoredNext(id) = [Stored(id) EXCEPT !.State = "completed"]
                          /\ reply'.text = CompletedText
                     ELSE IF ~ Contains(utterance, W_NO) /\ ~ Contains(utterance, W_WRONG)
                     THEN /\ sessions' = sessions
                          /\ heap' = heap
                          /\ reply'.text = ConfirmRepromptText
                     ELSE TRUE]_vars

\* an order of 1.5 at 65000 has been accepted and is still in the session
C13_Witness ==
    \E id \in HexIDs :
        /\ sessions[id] # Nil
        /\ Stored(id).State = "completed"
        /\ Stored(id).Quantity = OneAndHalf
        /\ Stored(id).OrderPrice = SixtyFiveThousand
        /\ reply.text = CompletedText

(* ------------------------------------------------------------------ *)
(* properties of whole conversations                                    *)
(* ------------------------------------------------------------------ *)

\* the utterance of the payload holds a word that parses as a number
HasNumber(payload) == extractNumber(ToLower(TrimSpace(payload)), <<>>).found

\* C14: in state symbol_selected an utterance with no number leaves the state
\* symbol_selected, in every session that a sequence of utterances reaches.
C14_NoNumberStaysInSymbolSelected ==
    [][\A id \in HexIDs, payload \in TalkPayloads :
          (/\ sessions[id] # Nil
           /\ Stored(id).State = "symbol_selected"
           /\ ~ HasNumber(payload)
           /\ Talk(id, payload, NoCall, LiteralOrder))
              => StoredNext(id).State = "symbol_selected"]_vars

\* the sessions that one more utterance leads to from the sessions of S
AfterOneMore(S) ==
    UNION { UNION { { processUserInput(s, ToLower(TrimSpace(payload)), gw, order).s :
                          gw \in GatewayFor(s.State), order \in OrdersFor(s.State) } :
                    payload \in TalkPayloads } :
            s \in S }

\* the sessions that sequences of utterances lead to from the sessions of S
RECURSIVE Closure(_)
Closure(S) ==
    LET T == S \cup AfterOneMore(S)
    IN  IF T = S THEN S ELSE Closure(T)

\* C15: awaiting_price and awaiting_quantity are both reachable: from a fresh
\* session some sequence of utterances ends in awaiting_price and some sequence
\* ends in awaiting_quantity.
C15_AwaitingStatesReachable ==
    \A id \in HexIDs :
        (sessions[id] # Nil /\ Stored(id) = NewSession(id))
            => /\ \E s \in Closure({ Stored(id) }) : s.State = "awaiting_price"
               /\ \E s \in Closure({ Stored(id) }) : s.State = "awaiting_quantity"

\* a fresh session is in the store, and neither state is among those that
\* utterances lead to from it
C15_Witness ==
    \E id \in HexIDs :
        /\ sessions[id] # Nil
        /\ Stored(id) = NewSession(id)
        /\ \A s \in Closure({ Stored(id) }) :
               s.State \notin { "awaiting_price", "awaiting_quantity" }

\* C20: when sessions are made by StartCall or the webhook and changed by webhook
\* utterances only, no request takes the default branch of processUserInput,
\* which resets the state to greeting and replies that it lost track.
C20_RecoveryBranchNeverTaken ==
    [][\A id \in HexIDs, payload \in TalkPayloads :
          (sessions[id] # Nil /\ Talk(id, payload, NoCall, LiteralOrder))
              => (Stored(id).State \in HandledStates /\ reply'.text # LostTrackText)]_vars

\* the caller of a finished order was told that the service lost track, exchange
\* and symbol of that order still in the session
C20_Witness ==
    \E id \in HexIDs :
        /\ sessions[id] # Nil
        /\ Stored(id).State = "greeting"
        /\ Stored(id).Exchange # <<>>
        /\ Stored(id).Symbol # <<>>
        /\ reply.text = LostTrackText

(* ------------------------------------------------------------------ *)
(* properties of the remaining handlers                                 *)
(* ------------------------------------------------------------------ *)

\* C16: in state awaiting_quantity an utterance whose first number is n stores n
\* as the quantity, keeps the limit price and moves to confirming, and an
\* utterance with no number changes nothing; in awaiting_price the same holds
\* with quantity and limit price exchanged.
C16_AwaitedNumberCompletesTheOrder ==
    [][\A id \in HexIDs, payload \in TalkPayloads :
          (/\ sessions[id] # Nil
           /\ Stored(id).State \in { "awaiting_quantity", "awaiting_price" }
           /\ Talk(id, payload, NoCall, LiteralOrder))
              => LET n == extractNumber(ToLower(TrimSpace(payload)), <<>>)
                 IN  IF ~ n.found
                     THEN /\ sessions' = sessions
                          /\ heap' = heap
                          /\ reply'.text = IF Stored(id).State = "awaiting_quantity"
                                           THEN QuantityRepromptText ELSE PriceRepromptText
                     ELSE IF Stored(id).State = "awaiting_quantity"
                     THEN /\ StoredNext(id) = [Stored(id) EXCEPT !.Quantity = n.num,
                                                                 !.State = "confirming"]
                          /\ reply'.text = SummaryText(n.num, Stored(id).Symbol,
                                                       Stored(id).OrderPrice, Stored(id).Exchange)
                     ELSE /\ StoredNext(id) = [Stored(id) EXCEPT !.OrderPrice = n.num,
                                                                 !.State = "confirming"]
                          /\ reply'.text = SummaryText(Stored(id).Quantity, Stored(id).Symbol,
                                                       n.num, Stored(id).Exchange)]_vars

\* "quantity 2" was said to a session that waited for the quantity of an order at
\* 65000: the order read back is 2 at 65000
C16_Witness ==
    \E id \in HexIDs :
        /\ sessions[id] # Nil
        /\ Stored(id).State = "confirming"
        /\ Stored(id).Quantity = ParseFloat(<<"2">>).num
        /\ Stored(id).OrderPrice = SixtyFiveThousand
        /\ reply.text = confirmOrder(Stored(id))

\* a reply that has text in it
NonEmptyText(text) == Len(text) > 0 /\ \E i \in 1..Len(text) : text[i] # ""

\* C17: for every session state, completed and unrecognized values included,
\* every utterance and every outcome of the price lookup, the request is answered
\* with status 200 and a reply that is not empty.
C17_EveryRequestGetsAReply ==
    [][\A id \in HexIDs, payload \in TalkPayloads, gw \in Gateway \cup { NoCall } :
          (sessions[id] # Nil /\ Talk(id, payload, gw, LiteralOrder))
              => (reply'.status = 200 /\ NonEmptyText(reply'.text))]_vars

\* a price lookup has failed and the caller has the apology
C17_Witness ==
    \E id \in HexIDs :
        /\ sessions[id] # Nil
        /\ Stored(id).State = "exchange_selected"
        /\ reply.status = 200
        /\ reply.text = PriceApologyText(<<"-", "5">>)

\* C18: a webhook request whose payload does not decode is answered with a
\* client error and goes no further: no session is made or looked up, the store
\* is as it was.
C18_BadPayloadTouchesNothing ==
    [][(reply'.status = 400)
          => (/\ reply'.text = InvalidPayloadText
              /\ sessions' = sessions
              /\ heap' = heap
              /\ served' = served)]_vars

\* a request that does not decode was refused after a conversation had begun
C18_Witness ==
    /\ reply.status = 400
    /\ reply.text = InvalidPayloadText
    /\ \E id \in CallIDs : sessions[id] # Nil /\ Stored(id).State = "symbol_selected"

\* C19: when the state of a session is none of the values processUserInput has
\* a case for, any utterance sets the state to greeting and gets the start-over
\* reply; exchange, symbol, price, quantity and limit price stay as they were
\* and the utterance is not interpreted.
C19_UnknownStateStartsOver ==
    [][\A id \in HexIDs, payload \in TalkPayloads :
          (/\ sessions[id] # Nil
           /\ Stored(id).State \notin HandledStates
           /\ Talk(id, payload, NoCall, LiteralOrder))
              => (/\ StoredNext(id) = [Stored(id) EXCEPT !.State = "greeting"]
                  /\ reply'.text = LostTrackText)]_vars

\* a session that held an order with a negative quantity, which no conversation
\* stores, was in an unknown state and is back in greeting with the order kept
C19_Witness ==
    \E id \in HexIDs :
        /\ sessions[id] # Nil
        /\ Stored(id).State = "greeting"
        /\ Stored(id).Quantity = 0 - OneAndHalf
        /\ Stored(id).OrderPrice = SixtyFiveThousand
        /\ reply.text = LostTrackText

(* ------------------------------------------------------------------ *)
(* StartCall and the ids it hands out                                   *)
(* ------------------------------------------------------------------ *)

\* C21: every StartCall stores a new session in state greeting under an id the
\* store did not hold before and returns that id with the greeting; it replaces
\* or resets no session that exists, also when generateSessionID falls back
\* after an error of the random source.
C21_StartCallNeverReplaces ==
    [][\A randOk \in BOOLEAN :
          StartCall(randOk)
              => (/\ reply'.call_id \in CallIDs
                  /\ sessions[reply'.call_id] = Nil
                  /\ StoredNext(reply'.call_id) = NewSession(reply'.call_id)
                  /\ reply'.text = GreetingText
                  /\ \A id \in CallIDs \ { reply'.call_id } :
                        /\ sessions'[id] = sessions[id]
                        /\ sessions[id] # Nil => StoredNext(id) = Stored(id))]_vars

\* the map holds, under the fallback id, the second session made for that id: a
\* StartCall whose random source failed has put it in the place of the first one
C21_Witness ==
    /\ sessions[FallbackID] = <<FallbackID, 2>>
    /\ Stored(FallbackID) = NewSession(FallbackID)
    /\ reply.call_id = FallbackID

(* ------------------------------------------------------------------ *)
(* what one request does to the order                                   *)
(* ------------------------------------------------------------------ *)

\* the states in which the utterance is searched for the numbers of the order
NumberStates == { "symbol_selected", "awaiting_quantity", "awaiting_price" }

\* C22: in symbol_selected, awaiting_quantity and awaiting_price an utterance
\* with no number that parses changes neither quantity nor limit price; a step
\* that changes one of them either stores the number parsed from the utterance
\* in one of these states or is the rejection in confirming, which zeroes both.
C22_OnlyANumberOverwrites ==
    [][\A id \in HexIDs, payload \in TalkPayloads :
          \A gw \in Gateway \cup { NoCall }, order \in IterationOrders :
              (sessions[id] # Nil /\ Talk(id, payload, gw, order))
                  => LET old == Stored(id)
                         new == StoredNext(id)
                         n   == extractNumber(ToLower(TrimSpace(payload)), <<>>)
                     IN  /\ (old.State \in NumberStates /\ ~n.found)
                                => (/\ new.Quantity = old.Quantity
                                    /\ new.OrderPrice = old.OrderPrice)
                         /\ (new.Quantity # old.Quantity \/ new.OrderPrice # old.OrderPrice)
                                => \/ /\ old.State \in NumberStates
                                      /\ n.found
                                      /\ new.Quantity \in { old.Quantity, n.num }
                                      /\ new.OrderPrice \in { old.OrderPrice, n.num }
                                   \/ /\ old.State = "confirming"
                                      /\ reply'.text = RejectedText
                                      /\ new.Quantity = 0
                                      /\ new.OrderPrice = 0]_vars

\* a session that waits for the price has been sent an utterance with no number:
\* it is asked again and the quantity accepted before is still there
C22_Witness ==
    \E id \in HexIDs :
        /\ sessions[id] # Nil
        /\ Stored(id).State = "awaiting_price"
        /\ Stored(id).Quantity = OneAndHalf
        /\ Stored(id).OrderPrice = SixtyFiveThousand
        /\ reply.text = PriceRepromptText

\* C23: the exchange is set once: when the exchange of a session is not empty,
\* no later utterance on that session changes it or clears it.
C23_ExchangeIsSetOnce ==
    [][\A id \in HexIDs :
          (sessions[id] # Nil /\ Stored(id).Exchange # <<>>)
              => StoredNext(id).Exchange = Stored(id).Exchange]_vars

\* an order on OKX has been accepted, the conversation has started over and the
\* session, which still holds the symbol and the numbers of that order, has been
\* moved to Bybit
C23_Witness ==
    \E id \in HexIDs :
        /\ sessions[id] # Nil
        /\ Stored(id).State = "exchange_selected"
        /\ Stored(id).Exchange = N_BYBIT
        /\ Stored(id).Symbol # <<>>
        /\ Stored(id).Quantity > 0
        /\ reply.text = ExchangeChosenText(N_BYBIT)

(* ------------------------------------------------------------------ *)
(* the price lookup                                                     *)
(* ------------------------------------------------------------------ *)

\* 65123.45 as ParseFloat returns it
Placeholder == ParseFloat(<<"6", "5", "1", "2", "3", ".", "4", "5">>).num

\* the upstream answered with status 200 and a body that holds no usd quote of the coin
NoQuote == [kind |-> "missing", usd |-> 0]

\* C24: when the upstream answers successfully and has no price for the symbol,
\* the lookup returns the placeholder price 65123.45 and no error, and the
\* session moves from exchange_selected to symbol_selected for that symbol with
\* the same reply as a real quote of 65123.45 gets.
C24_NoQuoteGivesThePlaceholder ==
    [][\A id \in HexIDs, payload \in TalkPayloads :
          (/\ sessions[id] # Nil
           /\ Stored(id).State = "exchange_selected"
           /\ Talk(id, payload, NoQuote, LiteralOrder))
              => LET utterance == ToLower(TrimSpace(payload))
                     symbol    == ToUpper(utterance)
                     real      == processUserInput(Stored(id), utterance,
                                      [kind |-> "found", usd |-> Placeholder], LiteralOrder)
                 IN  /\ fetchCurrentPrice(Stored(id).Exchange, symbol, NoQuote)
                            = [price |-> Placeholder, err |-> "nil"]
                     /\ StoredNext(id) = [Stored(id) EXCEPT !.Symbol = symbol,
                                                            !.Price = Placeholder,
                                                            !.State = "symbol_selected"]
                     /\ StoredNext(id) = real.s
                     /\ reply'.text = real.reply
                     /\ reply'.text = PriceQuoteText(symbol, Stored(id).Exchange, Placeholder)]_vars

\* the upstream had no quote of DOGE on Bybit: the session is in symbol_selected
\* with the placeholder as its price, and the reply quotes the placeholder
C24_Witness ==
    \E id \in HexIDs :
        /\ sessions[id] # Nil
        /\ Stored(id).State = "symbol_selected"
        /\ Stored(id).Exchange = N_BYBIT
        /\ Stored(id).Symbol = <<"D", "O", "G", "E">>
        /\ Stored(id).Price = Placeholder
        /\ reply.text = PriceQuoteText(<<"D", "O", "G", "E">>, N_BYBIT, Placeholder)

\* C25: fallback mock prices are used if the price API fails: when the upstream
\* call fails (transport error, status other than 200, or a body that does not
\* decode), the lookup still yields the mock price and the session moves from
\* exchange_selected to symbol_selected.
C25_FailedLookupFallsBackToMock ==
    [][\A id \in HexIDs, payload \in TalkPayloads, gw \in Gateway :
          (/\ sessions[id] # Nil
           /\ Stored(id).State = "exchange_selected"
           /\ GatewayFailed(gw)
           /\ Talk(id, payload, gw, LiteralOrder))
              => (/\ fetchCurrentPrice(Stored(id).Exchange,
                                       ToUpper(ToLower(TrimSpace(payload))), gw)
                         = [price |-> Placeholder, err |-> "nil"]
                  /\ StoredNext(id).State = "symbol_selected"
                  /\ StoredNext(id).Price = Placeholder)]_vars

\* the lookup of DOGE on Bybit has failed: the caller got the apology, and the
\* session has no symbol and no price and still waits in exchange_selected
C25_Witness ==
    \E id \in HexIDs :
        /\ sessions[id] # Nil
        /\ Stored(id).State = "exchange_selected"
        /\ Stored(id).Exchange = N_BYBIT
        /\ Stored(id).Symbol = <<>>
        /\ Stored(id).Price = 0
        /\ reply.text = PriceApologyText(<<"D", "O", "G", "E">>)

(* ------------------------------------------------------------------ *)
(* the routes of the frontend                                           *)
(* ------------------------------------------------------------------ *)

\* POST /api/process-speech, called by handleUserSpeech with the utterance and
\* the call id the page holds (a call id that /api/start-call returned): the
\* route does not read the body of the request, it posts {} to the backend's
\* /start-call and passes the answer on
ProcessSpeech(callID, payload, randOk) ==
    /\ sessions[callID] # Nil
    /\ StartCall(randOk)

\* the backend behind the frontend: /api/start-call and /api/process-speech
\* reach StartCall, and /bland/webhook is served for one call id
FrontNext ==
    \/ \E randOk \in BOOLEAN : StartCall(randOk)
    \/ \E callID \in CallIDs, payload \in TalkPayloads, randOk \in BOOLEAN :
           ProcessSpeech(callID, payload, randOk)
    \/ \E callID \in HexIDs, payload \in TalkPayloads :
           \E gw \in GatewayFor(StateMet(callID)), order \in OrdersFor(StateMet(callID)) :
               Talk(callID, payload, gw, order)

FrontSpec == Init /\ [][FrontNext]_vars

\* C26: POST /api/process-speech is a proxy to the backend webhook: the
\* utterance and the call id of the request reach HandleBlandWebhook, so the
\* request does to the store and answers what a webhook request with that call
\* id and utterance does, and no session is created.
C26_ProcessSpeechIsTheWebhook ==
    [][\A callID \in CallIDs, payload \in TalkPayloads, randOk \in BOOLEAN :
          ProcessSpeech(callID, payload, randOk)
              => (/\ \E gw \in Gateway \cup { NoCall }, order \in IterationOrders :
                         Talk(callID, payload, gw, order)
                  /\ \A id \in CallIDs : sessions[id] = Nil => sessions'[id] = Nil)]_vars

(* ------------------------------------------------------------------ *)
(* extractNumber                                                        *)
(* ------------------------------------------------------------------ *)

\* words of utterances: no number, numbers with a comma, with punctuation
\* around them or with a sign, a comma that stands alone
T_At == <<"a", "t">>

T_SixtyFiveThousand == <<"6", "5", ",", "0", "0", "0">>

T_TwoDollars == <<"$", "2", ".">>

T_MinusFive == <<"-", "5">>

T_Grouped == <<"1", ",", "2", "3", "4", ".", "5", "!">>

T_Comma == <<",">>

ExtractWords ==
    { T_At, T_SixtyFiveThousand, T_TwoDollars, T_MinusFive, T_Grouped, T_Comma }


\* the words an utterance of the model is made of, at most
MaxWords == 2

RECURSIVE GroupDigits(_)
\* the digits ds with a comma before every group of three, counted from the right
GroupDigits(ds) ==
    IF Len(ds) <= 3 THEN ds
    ELSE GroupDigits(SubSeq(ds, 1, Len(ds) - 3)) \o <<",">> \o SubSeq(ds, Len(ds) - 2, Len(ds))

\* "%.4f" of a positive value with thousands separators in the integer part
Fmt4Grouped(v) ==
    GroupDigits(NatDigits(v \div Scale)) \o <<".">> \o PadLeft(NatDigits(v % Scale), FracDigits)

\* positive decimals: 0.0001, 0.5, 1.5, 65000, 65123.45, 123456.789
Decimals ==
    { 1, Scale \div 2, OneAndHalf, SixtyFiveThousand, Placeholder, 123456 * Scale + 7890 }

\* the renderings of Decimals, without and with thousands separators
Renderings == { Fmt4(n) : n \in Decimals } \cup { Fmt4Grouped(n) : n \in Decimals }

\* the words ws with one space between them
RECURSIVE Join(_)
Join(ws) ==
    IF ws = <<>> THEN <<>>
    ELSE IF Len(ws) = 1 THEN ws[1]
    ELSE ws[1] \o <<" ">> \o Join(Tail(ws))

\* the texts extractNumber is applied to
ExtractTexts ==
    { Join(ws) : ws \in UNION { [1..n -> ExtractWords] : n \in 1..MaxWords } }
        \cup Renderings

\* the keyword lists the code passes to extractNumber
KeywordLists ==
    { <<"quantity", "amount", "size">>, <<"price", "at", "for">>, <<>> }

\* the store holds one session that waits for numbers, which is any such sample
\* that has its symbol
ExtractInit ==
    \E s \in { x \in SessionSamples : x.State \in NumberStates /\ x.Symbol # <<>> } :
        /\ sessions = [id \in CallIDs |-> IF id = s.CallID THEN <<id, 1>> ELSE Nil]
        /\ heap = [p \in Ptrs |-> IF p = <<s.CallID, 1>> THEN s ELSE NoRecord]
        /\ th = [t \in Threads |-> IdleThread]
        /\ reply = NoReply
        /\ served = 0
        /\ returned = [id \in CallIDs |-> Nil]
        /\ epoch = NoEpoch
        /\ page = IdlePage

\* one request with any of ExtractTexts is served for the session
ExtractNext ==
    /\ reply = NoReply
    /\ \E callID \in HexIDs, payload \in ExtractTexts :
           Talk(callID, payload, NoCall, LiteralOrder)

\* extractNumber applied, by the handlers that call it, to each of ExtractTexts
ExtractSpec == ExtractInit /\ [][ExtractNext]_vars

\* the word as ParseFloat gets it: commas removed, punctuation around it stripped
CleanWord(word) == Trim(RemoveAll(word, ","), {".", ",", "!", "?", "$"})

\* the first word of the text, in reading order, that parses as a number
FirstParsing(text) ==
    LET words   == Fields(text)
        parsing == { i \in 1..Len(words) : ParseFloat(CleanWord(words[i])).ok }
    IN  IF parsing = {} THEN [num |-> 0, found |-> FALSE]
        ELSE LET first == CHOOSE i \in parsing : \A j \in parsing : i <= j
             IN  [num |-> ParseFloat(CleanWord(words[first])).num, found |-> TRUE]

\* C27: extractNumber returns the first word, in reading order, that parses as
\* a number once commas are removed and the punctuation around it is stripped,
\* and found = false exactly when no word parses; the result is the same for
\* every keyword list and for every call with the same text: each handler that
\* calls it stores that number, or finds none and stores nothing.
C27_FirstNumberInReadingOrder ==
    [][\A id \in HexIDs, payload \in ExtractTexts :
          (sessions[id] # Nil /\ Talk(id, payload, NoCall, LiteralOrder))
              => LET text == ToLower(TrimSpace(payload))
                     want == FirstParsing(text)
                     old  == Stored(id)
                     new  == StoredNext(id)
                 IN  /\ \A keywords \in KeywordLists : extractNumber(text, keywords) = want
                     /\ want.found <=> \E i \in 1..Len(Fields(text)) :
                                           ParseFloat(CleanWord(Fields(text)[i])).ok
                     /\ old.State = "awaiting_quantity"
                            => IF want.found
                               THEN new = [old EXCEPT !.Quantity = want.num,
                                                      !.State = "confirming"]
                               ELSE new = old /\ reply'.text = QuantityRepromptText
                     /\ old.State = "awaiting_price"
                            => IF want.found
                               THEN new = [old EXCEPT !.OrderPrice = want.num,
                                                      !.State = "confirming"]
                               ELSE new = old /\ reply'.text = PriceRepromptText
                     /\ old.State = "symbol_selected"
                            => IF want.found
                               THEN new.Quantity = want.num /\ new.OrderPrice = want.num
                               ELSE /\ new.Quantity = old.Quantity
                                    /\ new.OrderPrice = old.OrderPrice]_vars

\* "at $2." was sent to a session that waited for the quantity: the second word
\* is the first that parses, and 2 is the quantity
C27_Witness ==
    \E id \in HexIDs :
        /\ sessions[id] # Nil
        /\ Stored(id).State = "confirming"
        /\ Stored(id).Quantity = 2 * Scale
        /\ Stored(id).OrderPrice = SixtyFiveThousand
        /\ FirstParsing(Join(<<T_At, T_TwoDollars>>)) = [num |-> Stored(id).Quantity, found |-> TRUE]

\* C28: for every positive decimal n, extractNumber applied to the rendering of
\* n, with or without thousands separators, returns found = true and n: a
\* session that waits for the quantity stores n.
C28_RenderingRoundTrip ==
    [][\A id \in HexIDs, n \in Decimals :
          \A payload \in { Fmt4(n), Fmt4Grouped(n) } :
              (/\ sessions[id] # Nil
               /\ Stored(id).State = "awaiting_quantity"
               /\ Talk(id, payload, NoCall, LiteralOrder))
                  => (/\ \A keywords \in KeywordLists :
                            extractNumber(ToLower(TrimSpace(payload)), keywords)
                                = [num |-> n, found |-> TRUE]
                      /\ StoredNext(id).Quantity = n
                      /\ StoredNext(id).State = "confirming")]_vars

\* "123,456.7890" was sent to a session that waited for the quantity
C28_Witness ==
    \E id \in HexIDs :
        /\ sessions[id] # Nil
        /\ Stored(id).State = "confirming"
        /\ Stored(id).Quantity = 123456 * Scale + 7890
        /\ Fmt4Grouped(Stored(id).Quantity)
               = <<"1", "2", "3", ",", "4", "5", "6", ".", "7", "8", "9", "0">>

(* ------------------------------------------------------------------ *)
(* the order summary                                                    *)
(* ------------------------------------------------------------------ *)

\* C29: every step that takes a session into confirming answers with the order
\* summary made of quantity, symbol, limit price and exchange as the session
\* holds them after the step, both numbers with four decimals; the price of the
\* lookup has no part in it.
C29_SummaryOfTheStoredOrder ==
    [][\A id \in HexIDs, payload \in TalkPayloads :
          \A gw \in Gateway \cup { NoCall }, order \in IterationOrders :
              (/\ sessions[id] # Nil
               /\ Stored(id).State # "confirming"
               /\ Talk(id, payload, gw, order)
               /\ StoredNext(id).State = "confirming")
                  => LET new == StoredNext(id)
                     IN  /\ reply'.text =
                                <<"Got it. To confirm, you want to trade ">>
                                \o Fmt4(new.Quantity) \o <<" ">> \o new.Symbol
                                \o <<" at $">> \o Fmt4(new.OrderPrice)
                                \o <<" per unit on ">> \o new.Exchange
                                \o <<". Is that correct?">>
                         /\ \A price \in { 0, QuotedPrice, Placeholder } :
                                confirmOrder([new EXCEPT !.Price = price]) = reply'.text]_vars

\* "1.5 at 65000" was sent to a session on Bybit that held DOGE, quoted at
\* 65123.45: the summary names 1.5 as quantity and as price, and no 65123.45
C29_Witness ==
    \E id \in HexIDs :
        /\ sessions[id] # Nil
        /\ Stored(id).State = "confirming"
        /\ Stored(id).Price = Placeholder
        /\ Stored(id).Quantity = OneAndHalf
        /\ Stored(id).OrderPrice = OneAndHalf
        /\ reply.text = <<"Got it. To confirm, you want to trade ">>
                        \o <<"1", ".", "5", "0", "0", "0">> \o <<" ">> \o <<"D", "O", "G", "E">>
                        \o <<" at $">> \o <<"1", ".", "5", "0", "0", "0">>
                        \o <<" per unit on ">> \o N_BYBIT \o <<". Is that correct?">>

(* ------------------------------------------------------------------ *)
(* the lookups of one request                                           *)
(* ------------------------------------------------------------------ *)

\* C30: a price lookup that fails or times out is not made again: a request
\* makes exactly one lookup when the switch of processUserInput reads
\* exchange_selected and none when it reads any other state.  A goroutine
\* reaches the lookup from the switch only, and just when the state read is
\* exchange_selected; it runs the switch once per request; and the lookup is one
\* step, after which the goroutine either returns the apology or goes on to
\* store the symbol.
C30_OneLookupAndNoRetry ==
    [][\A t \in Threads :
          /\ (th[t].pc = "dispatch" /\ th'[t].pc # "dispatch")
                 => (th'[t].pc = "hss_fetch" <=> Obj(t).State = "exchange_selected")
          /\ (th'[t].pc = "hss_fetch" /\ th[t].pc # "hss_fetch")
                 => th[t].pc = "dispatch"
          /\ (th'[t].pc = "dispatch" /\ th[t].pc # "dispatch")
                 => th[t].pc = "idle"
          /\ (th[t].pc = "hss_fetch" /\ th'[t] # th[t])
                 => \/ /\ th'[t].pc = "update"
                       /\ th'[t].response = PriceApologyText(th[t].potentialSymbol)
                    \/ /\ th'[t].pc = "hss_symbol"
                       /\ th'[t].price \in { QuotedPrice, Placeholder }]_vars

\* the lookup of a request has failed: the goroutine holds the apology and is
\* about to return it, and the session still waits for a symbol
C30_Witness ==
    \E t \in Threads :
        /\ th[t].pc = "update"
        /\ th[t].response = PriceApologyText(th[t].potentialSymbol)
        /\ th[t].potentialSymbol # <<>>
        /\ Obj(t).State = "exchange_selected"

(* ------------------------------------------------------------------ *)
(* the store operations                                                 *)
(* ------------------------------------------------------------------ *)

\* C31: the store operations change no field of a session: getOrCreateSession
\* for an id the map holds leaves map and records as they are and returns the
\* record of the map; updateSession leaves every field of the record it files
\* as it was; and filing the same record once more gives the same map.
C31_StoreKeepsTheRecord ==
    [][\A t \in Threads :
          /\ (th[t].pc = "idle" /\ th'[t].pc = "dispatch" /\ sessions[th'[t].callID] # Nil)
                 => (/\ sessions' = sessions
                     /\ heap' = heap
                     /\ th'[t].session = sessions[th'[t].callID])
          /\ (th[t].pc = "update" /\ th'[t].pc = "idle")
                 => (/\ heap'[th[t].session] = heap[th[t].session]
                     /\ sessions'[heap[th[t].session].CallID] = th[t].session
                     /\ \A id \in CallIDs \ { heap[th[t].session].CallID } :
                            sessions'[id] = sessions[id]
                     /\ updateSession(sessions', heap', th[t].session) = sessions')]_vars

\* a request has got the session of its call id from the map, where the session
\* had got as far as confirming: the record it holds is that of the map, with
\* the order in it
C31_Witness ==
    \E t \in Threads :
        /\ th[t].pc = "dispatch"
        /\ th[t].session = sessions[th[t].callID]
        /\ Obj(t).State = "confirming"
        /\ Obj(t).Quantity = OneAndHalf
        /\ \A o \in Threads \ { t } : th[o].pc = "idle"

(* ------------------------------------------------------------------ *)
(* the order of the states                                              *)
(* ------------------------------------------------------------------ *)

\* the states from which one utterance may take a session into state
EnteredFrom(state) ==
    IF state = "exchange_selected" THEN { "greeting" }
    ELSE IF state = "symbol_selected" THEN { "exchange_selected", "confirming" }
    ELSE IF state \in { "awaiting_quantity", "awaiting_price" } THEN { "symbol_selected" }
    ELSE IF state = "confirming"
         THEN { "symbol_selected", "awaiting_quantity", "awaiting_price" }
    ELSE IF state = "completed" THEN { "confirming" }
    ELSE {}

\* C32: states are entered in the order of the conversation only:
\* exchange_selected from greeting, symbol_selected from exchange_selected or,
\* on a rejection, from confirming, awaiting_quantity and awaiting_price from
\* symbol_selected, confirming from symbol_selected, awaiting_quantity or
\* awaiting_price, completed from confirming; no utterance skips a stage.
C32_StatesInConversationOrder ==
    [][\A id \in HexIDs, payload \in TalkPayloads :
          \A gw \in Gateway \cup { NoCall }, order \in IterationOrders :
              (/\ sessions[id] # Nil
               /\ Talk(id, payload, gw, order)
               /\ StoredNext(id).State # Stored(id).State
               /\ StoredNext(id).State # "greeting")
                  => Stored(id).State \in EnteredFrom(StoredNext(id).State)]_vars

\* a session in symbol_selected that held a quantity and no price was sent an
\* utterance and has been taken to awaiting_price
C32_Witness ==
    \E id \in HexIDs :
        /\ sessions[id] # Nil
        /\ Stored(id).State = "awaiting_price"
        /\ Stored(id).Quantity > 0
        /\ Stored(id).OrderPrice = 0
        /\ reply.text = AskPriceText

(* ------------------------------------------------------------------ *)
(* requests of two calls, served side by side                           *)
(* ------------------------------------------------------------------ *)

\* the call each goroutine serves requests of
CallOf(t) == IF t = "t1" THEN "9f3a61c2" ELSE FallbackID

IsoPayloads == { P_WantOkx, P_Doge, P_OneAndHalfAt65000, P_No }

\* two goroutines, each serving the requests of its own call; handleQuantity and
\* handleOrderPrice have no part in it, since a call whose requests are served
\* one after the other reaches neither awaiting_quantity nor awaiting_price
IsoNext ==
    \/ \E t \in Threads, payload \in IsoPayloads : Receive(t, CallOf(t), payload)
    \/ \E t \in Threads : Dispatch(t)
    \/ \E t \in Threads : HandleExchangeSelection(t)
    \/ \E t \in Threads : HandleSymbolSelection(t)
    \/ \E t \in Threads : HandleOrderDetails(t)
    \/ \E t \in Threads : HandleConfirmation(t)
    \/ \E t \in Threads : ConfirmOrder(t)
    \/ \E t \in Threads : Update(t)

IsoSpec == Init /\ [][IsoNext]_vars

\* C33: sessions are isolated: a step of a request for one call id, whether or
\* not a request for another id is in progress, changes neither the map entry
\* nor any field of the session stored under a different call id.
C33_OtherSessionsUntouched ==
    [][\A t \in Threads, other \in CallIDs :
          (th'[t] # th[t] /\ other # CallOf(t))
              => (/\ sessions'[other] = sessions[other]
                  /\ sessions[other] # Nil => StoredNext(other) = Stored(other))]_vars

\* while the session of one call waits in confirming, a request of the other
\* call is half way through the writes of handleSymbolSelection
C33_Witness ==
    /\ sessions["9f3a61c2"] # Nil
    /\ Stored("9f3a61c2").State = "confirming"
    /\ th["t1"].pc = "idle"
    /\ th["t2"].pc = "hss_state"
    /\ sessions[FallbackID] # Nil
    /\ Stored(FallbackID).Symbol = <<"D", "O", "G", "E">>

(* ------------------------------------------------------------------ *)
(* what a rejection keeps                                               *)
(* ------------------------------------------------------------------ *)

\* C34: a rejection in confirming resets the order parameters only: the step
\* that answers with the rejection reply leaves symbol, exchange and the quoted
\* price of the session as they were, zeroes quantity and limit price and takes
\* the session to symbol_selected.
C34_RejectionKeepsSymbolAndExchange ==
    [][\A id \in HexIDs, payload \in TalkPayloads :
          (/\ sessions[id] # Nil
           /\ Stored(id).State = "confirming"
           /\ Talk(id, payload, NoCall, LiteralOrder)
           /\ reply'.text = RejectedText)
              => (/\ StoredNext(id).Symbol = Stored(id).Symbol
                  /\ StoredNext(id).Exchange = Stored(id).Exchange
                  /\ StoredNext(id).Price = Stored(id).Price
                  /\ StoredNext(id) = [Stored(id) EXCEPT !.State = "symbol_selected",
                                                         !.Quantity = 0,
                                                         !.OrderPrice = 0])]_vars

\* an order for DOGE on Bybit has been rejected: the session is in
\* symbol_selected with no numbers, and holds DOGE, Bybit and the quoted price
C34_Witness ==
    \E id \in HexIDs :
        /\ sessions[id] # Nil
        /\ Stored(id).State = "symbol_selected"
        /\ Stored(id).Symbol = <<"D", "O", "G", "E">>
        /\ Stored(id).Exchange = N_BYBIT
        /\ Stored(id).Price = MockPrice
        /\ Stored(id).Quantity = 0
        /\ Stored(id).OrderPrice = 0
        /\ reply.text = RejectedText

(* ------------------------------------------------------------------ *)
(* the quoted price                                                     *)
(* ------------------------------------------------------------------ *)

\* C35: whenever the symbol of a session is not empty, its price is the one the
\* latest successful lookup returned for the very exchange and symbol the
\* session holds.  Stated on the steps: a step that leaves a symbol in the
\* session and changes exchange, symbol or price is a successful lookup, made in
\* exchange_selected for the exchange the session holds, that stores the
\* symbol looked up and the price returned.
C35_PriceBelongsToExchangeAndSymbol ==
    [][\A id \in HexIDs :
          (/\ sessions[id] # Nil
           /\ StoredNext(id).Symbol # <<>>
           /\ \/ StoredNext(id).Exchange # Stored(id).Exchange
              \/ StoredNext(id).Symbol # Stored(id).Symbol
              \/ StoredNext(id).Price # Stored(id).Price)
              => (/\ Stored(id).State = "exchange_selected"
                  /\ StoredNext(id).State = "symbol_selected"
                  /\ StoredNext(id).Exchange = Stored(id).Exchange
                  /\ \E payload \in TalkPayloads, gw \in Gateway :
                         LET symbol == ToUpper(ToLower(TrimSpace(payload)))
                             got    == fetchCurrentPrice(Stored(id).Exchange, symbol, gw)
                         IN  /\ got.err = "nil"
                             /\ StoredNext(id).Symbol = symbol
                             /\ StoredNext(id).Price = got.price)]_vars

\* the exchange of a session has been chosen once more, after an order was
\* accepted: the session is on Bybit and holds DOGE with the price a lookup
\* returned before that choice
C35_Witness ==
    \E id \in HexIDs :
        /\ sessions[id] # Nil
        /\ Stored(id).State = "exchange_selected"
        /\ Stored(id).Exchange = N_BYBIT
        /\ Stored(id).Symbol = <<"D", "O", "G", "E">>
        /\ Stored(id).Price = QuotedPrice
        /\ reply.text = ExchangeChosenText(N_BYBIT)

(* ------------------------------------------------------------------ *)
(* the sign of the numbers of the order                                 *)
(* ------------------------------------------------------------------ *)

\* C36: quantity and limit price are negative in no reachable state: a number
\* that is zero or negative is not taken as a quantity or a price.
C36_NumbersNeverNegative ==
    \A id \in HexIDs :
        sessions[id] # Nil => (Stored(id).Quantity >= 0 /\ Stored(id).OrderPrice >= 0)

\* "-5" was sent to a session in symbol_selected: the session holds -5 as its
\* quantity and as its limit price, and the caller was asked for both numbers
C36_Witness ==
    \E id \in HexIDs :
        /\ sessions[id] # Nil
        /\ Stored(id).State = "symbol_selected"
        /\ Stored(id).Quantity = ParseFloat(<<"-", "5">>).num
        /\ Stored(id).OrderPrice = ParseFloat(<<"-", "5">>).num
        /\ Stored(id).Quantity < 0
        /\ reply.text = NeedBothText

(* ------------------------------------------------------------------ *)
(* the browser page: startCall and endCall                              *)
(* ------------------------------------------------------------------ *)

\* the clicks on the buttons of the page in one run
MaxClicks == 7

\* click on "Start Call", which is shown while isActive is false and enabled
\* unless status is 'starting': startCall runs up to its fetch
startCall ==
    /\ ~page.isActive
    /\ page.status # "starting"
    /\ page.clicks < MaxClicks
    /\ page' = [page EXCEPT !.isActive = FALSE, !.status = "starting", !.callId = "",
                            !.fetches = @ + 1, !.clicks = @ + 1]
    /\ UNCHANGED <<sessions, heap, th, reply, served, returned, epoch>>

\* a fetch of startCall comes back: with a call id, and the call is active, or
\* with an error
startCallFetched(ok) ==
    /\ page.fetches > 0
    /\ IF ok
       THEN \E callID \in CallIDs :
                page' = [page EXCEPT !.isActive = TRUE, !.status = "active",
                                     !.callId = callID, !.fetches = @ - 1,
                                     !.started = @ + 1]
       ELSE page' = [page EXCEPT !.isActive = FALSE, !.status = "error", !.callId = "",
                                 !.fetches = @ - 1]
    /\ UNCHANGED <<sessions, heap, th, reply, served, returned, epoch>>

\* click on "End Call", which is shown while isActive is true: the status is
\* 'ending' and a timer of one second is set
endCall ==
    /\ page.isActive
    /\ page.clicks < MaxClicks
    /\ page' = [page EXCEPT !.isActive = FALSE, !.status = "ending", !.callId = "",
                            !.timers = @ + 1, !.clicks = @ + 1]
    /\ UNCHANGED <<sessions, heap, th, reply, served, returned, epoch>>

\* a timer of endCall fires: setCallStatus({ isActive: false, status: 'idle' })
endCallTimeout ==
    /\ page.timers > 0
    /\ page' = [page EXCEPT !.isActive = FALSE, !.status = "idle", !.callId = "",
                            !.timers = @ - 1]
    /\ UNCHANGED <<sessions, heap, th, reply, served, returned, epoch>>

PageNext ==
    \/ startCall
    \/ \E ok \in BOOLEAN : startCallFetched(ok)
    \/ endCall
    \/ endCallTimeout

PageSpec == Init /\ [][PageNext]_vars

\* C37: on the page isActive is true exactly when status is 'active', and a
\* call that startCall has made active stays active until endCall is invoked:
\* the only step that takes isActive from true to false is endCall, which sets
\* status 'ending'; no timer of an earlier endCall deactivates the call.
C37_ActiveUntilEndCall ==
    [][/\ page'.isActive <=> page'.status = "active"
       /\ (page.isActive /\ ~page'.isActive) => page'.status = "ending"]_vars

\* the page shows 'idle' after three clicks, start, end and start, of which the
\* second start has made a call active: no endCall was invoked since, and the
\* timer of the one endCall has ended the second call
C37_Witness ==
    /\ page.status = "idle"
    /\ ~page.isActive
    /\ page.clicks = 3
    /\ page.started = 2
    /\ page.timers = 0
    /\ page.fetches = 0

====
